---------------------------- MODULE Spec2Model ----------------------------
(***************************************************************************)
(* Model of scripts/cue_to_zig.py: the part sequencer                      *)
(* (topological_sort_parts), the identifier drift check of generate_zig,   *)
(* and the audit path (run_audit, validate_cross_references, AuditReport,  *)
(* main's exit signalling).                                                *)
(*                                                                         *)
(* Strings that the program only compares or sorts are modelled by small   *)
(* natural numbers whose numeric order is the strings' alphabetical order. *)
(***************************************************************************)
EXTENDS Integers, Sequences, FiniteSets, TLC

VARIABLES
    \* ---- topological_sort_parts ----
    parts,        \* the argument: part name -> value of parts[name].get("parent")
    remaining,    \* set of names not yet placed
    result,       \* list of placed names (the record of a name is parts[name])
    rounds,       \* number of iterations of the while loop executed so far
    fallbacks,    \* number of iterations that took the `if not ready` branch
    sort_pc,      \* "idle" | "loop" | "done"
    \* ---- main ----
    args,         \* parsed command line: [audit_report, audit_only]
    data,         \* the loaded JSON document
    pc,           \* position in main / generate_zig / run_audit
    stdout,       \* what has been written to standard output, in order
    stderr,       \* what has been written to standard error, in order
    exit_code,    \* NotExited, 0 or 1
    \* ---- generate_zig ----
    artifact,     \* the file at TECHNIQUE_ENUM_PATH: NoFile or its lines
    cue_ids,      \* set of technique ids of the input
    existing_ids, \* set returned by load_existing_technique_ids
    zig_code,     \* the sections of the text generate_zig returns
    \* ---- run_audit and the audit branch of main ----
    report,       \* the AuditReport
    markdown,     \* the value of report.to_markdown(), NotRendered before
    report_file   \* what has been written to the file args.audit_report

sortVars == <<parts, remaining, result, rounds, fallbacks, sort_pc>>
mainVars == <<args, data, pc, stdout, stderr, exit_code>>
genVars == <<artifact, cue_ids, existing_ids, zig_code>>
auditVars == <<report, markdown, report_file>>
vars == <<sortVars, mainVars, genVars, auditVars>>

-----------------------------------------------------------------------------
(* Generic helpers *)

Range(s) == {s[i] : i \in 1..Len(s)}

\* Python's sorted() on a list of distinct comparable keys: insertion into
\* an ascending list, one element at a time.
RECURSIVE InsertSorted(_, _)
InsertSorted(x, s) ==
    IF s = <<>> THEN <<x>>
    ELSE IF x <= Head(s) THEN <<x>> \o s
    ELSE <<Head(s)>> \o InsertSorted(x, Tail(s))

RECURSIVE sorted(_)
sorted(s) == IF s = <<>> THEN <<>> ELSE InsertSorted(Head(s), sorted(Tail(s)))

\* All the orders in which a Python set may be iterated.
RECURSIVE Orders(_)
Orders(S) ==
    IF S = {} THEN {<<>>}
    ELSE UNION {{<<x>> \o s : s \in Orders(S \ {x})} : x \in S}

\* dict.get(key, default) on a mapping with fixed field names
Get(rec, key, default) == IF key \in DOMAIN rec THEN rec[key] ELSE default

\* The empty string; every other string is a number above it.
EmptyStr == 0

\* Python truthiness of a string
Truthy(str) == str # EmptyStr

\* Values of the variables of a part of the program that is not running.
NotExited == -1

MainIdle ==
    /\ args = [audit_report |-> FALSE, audit_only |-> FALSE]
    /\ data = <<>>
    /\ pc = "idle"
    /\ stdout = <<>>
    /\ stderr = <<>>
    /\ exit_code = NotExited

GenIdle ==
    /\ artifact = [exists |-> FALSE]
    /\ cue_ids = {}
    /\ existing_ids = {}
    /\ zig_code = <<>>

\* AuditReport(): every field at its default_factory value (lines 37-48)
EmptyReport ==
    [entries |-> <<>>, cross_ref_errors |-> <<>>, summary |-> <<>>,
     weapon_ids |-> {}, technique_ids |-> {}, armour_material_ids |-> {},
     armour_piece_ids |-> {}, tissue_template_ids |-> {},
     tissue_material_ids |-> {}, body_plan_ids |-> {}]

NotRendered == [rendered |-> FALSE]

AuditIdle ==
    /\ report = EmptyReport
    /\ markdown = NotRendered
    /\ report_file = <<>>

SortIdle ==
    /\ parts = <<>>
    /\ remaining = {}
    /\ result = <<>>
    /\ rounds = 0
    /\ fallbacks = 0
    /\ sort_pc = "idle"

-----------------------------------------------------------------------------
(* topological_sort_parts *)

MaxParts == 4

\* Part names of a plan; OutsideName is a name that never is a part of the map.
PartNames == 1..MaxParts
OutsideName == MaxParts + 1
\* parts[name].get("parent") when the record has no "parent" key (or null).
None == 0
ParentValues == {None} \cup PartNames \cup {OutsideName}

PartMaps == UNION {[S -> ParentValues] : S \in SUBSET PartNames}

\* Mutant: the `parent not in remaining` test is lost, every name is ready.
IsReady_AlwaysReady(p, rem, name) == TRUE

\* Mutant: a parent name that is no part of the map blocks the part.
IsReady_InMapParentOnly(p, rem, name) ==
    p[name] = None \/ (p[name] \in DOMAIN p /\ p[name] \notin rem)

\* line 560: the test that makes a name ready
IsReady(p, rem, name) == p[name] = None \/ p[name] \notin rem

\* lines 557-561: the ready list, built in the iteration order `order` of the set
ReadyList(p, rem, order) == SelectSeq(order, LAMBDA name : IsReady(p, rem, name))

\* Mutant: no deadlock fallback.
ReadyOrFallback_NoFallback(p, rem, order) == ReadyList(p, rem, order)

\* Mutant: the fallback releases only the first remaining name.
ReadyOrFallback_FirstOnly(p, rem, order) ==
    IF ReadyList(p, rem, order) = <<>> THEN <<sorted(order)[1]>>
    ELSE ReadyList(p, rem, order)

\* lines 563-565: the deadlock fallback
ReadyOrFallback(p, rem, order) ==
    IF ReadyList(p, rem, order) = <<>> THEN sorted(order)
    ELSE ReadyList(p, rem, order)

\* Mutant: the ready names are appended in iteration order.
Emitted_Unsorted(p, rem, order) == ReadyOrFallback(p, rem, order)

\* lines 568-570: the names appended in one round, in order
Emitted(p, rem, order) == sorted(ReadyOrFallback(p, rem, order))

\* Mutant: only the first emitted name is discarded.
Discard_FirstOnly(rem, names) == rem \ {names[1]}

\* line 570: remaining.discard(name) for every emitted name
Discard(rem, names) == rem \ Range(names)

SortInit ==
    /\ MainIdle /\ GenIdle /\ AuditIdle
    /\ parts \in PartMaps
    /\ remaining = DOMAIN parts
    /\ result = <<>>
    /\ rounds = 0
    /\ fallbacks = 0
    /\ sort_pc = "loop"

\* One iteration of `while remaining:` (lines 555-570).
SortRound ==
    /\ sort_pc = "loop"
    /\ remaining # {}
    /\ \E order \in Orders(remaining) :
         LET placed == Emitted(parts, remaining, order) IN
         /\ result' = result \o placed
         /\ remaining' = Discard(remaining, placed)
         /\ fallbacks' = fallbacks + (IF ReadyList(parts, remaining, order) = <<>> THEN 1 ELSE 0)
    /\ rounds' = rounds + 1
    /\ UNCHANGED <<parts, sort_pc, mainVars, genVars, auditVars>>

\* The loop condition fails: `return result` (line 572).
SortReturn ==
    /\ sort_pc = "loop"
    /\ remaining = {}
    /\ sort_pc' = "done"
    /\ UNCHANGED <<parts, remaining, result, rounds, fallbacks, mainVars, genVars, auditVars>>

SortNext == SortRound \/ SortReturn

SpecSort == SortInit /\ [][SortNext]_vars

-----------------------------------------------------------------------------
(* The input document and the flatteners *)

\* A JSON value that is not a mapping (isinstance(value, dict) is false).
ScalarValue == [scalar |-> TRUE]
IsDict(value) == "scalar" \notin DOMAIN value

\* A mapping whose keys are data (ids, names) is the list of its
\* <<key, value>> pairs in document order; a mapping with fixed field names
\* is a record that has just the fields present in the document.
NoEntries == <<>>

\* Stable sort of <<key, value>> pairs by key: sorted(results, key=lambda x: x[0])
RECURSIVE InsertByKey(_, _)
InsertByKey(x, s) ==
    IF s = <<>> THEN <<x>>
    ELSE IF x[1] <= Head(s)[1] THEN <<x>> \o s
    ELSE <<Head(s)>> \o InsertByKey(x, Tail(s))

RECURSIVE sorted_by_key(_)
sorted_by_key(s) ==
    IF s = <<>> THEN <<>> ELSE InsertByKey(Head(s), sorted_by_key(Tail(s)))

\* ".".join(path)
RECURSIVE dot_join(_)
dot_join(path) ==
    IF path = <<>> THEN ""
    ELSE IF Len(path) = 1 THEN path[1]
    ELSE path[1] \o "." \o dot_join(Tail(path))

\* Mutant: the children of a named node are visited too.
RECURSIVE visit_BelowNamed(_, _)
visit_BelowNamed(prefix, items) ==
    IF items = <<>> THEN <<>>
    ELSE LET key == Head(items)[1]
             value == Head(items)[2]
             next_prefix == prefix \o <<key>>
         IN  (IF ~IsDict(value) THEN <<>>
              ELSE (IF "name" \in DOMAIN value
                    THEN << <<dot_join(next_prefix), value>> >> ELSE <<>>)
                   \o visit_BelowNamed(next_prefix, Get(value, "items", NoEntries)))
             \o visit_BelowNamed(prefix, Tail(items))

\* flatten_weapons.visit: a weapon node is a record; its data-keyed children
\* are the pairs of its field `items`, its other fields are scalars.  The id
\* of a named node is the path of keys to it, joined with ".".
RECURSIVE visit(_, _)
visit(prefix, items) ==
    IF items = <<>> THEN <<>>
    ELSE LET key == Head(items)[1]
             value == Head(items)[2]
             next_prefix == prefix \o <<key>>
         IN  (IF ~IsDict(value) THEN <<>>
              ELSE IF "name" \in DOMAIN value THEN << <<dot_join(next_prefix), value>> >>
              ELSE visit(next_prefix, Get(value, "items", NoEntries)))
             \o visit(prefix, Tail(items))

flatten_weapons(root) == visit(<<>>, Get(root, "items", NoEntries))

\* flatten_techniques: entry.setdefault("id", key) on a copy of each mapping
RECURSIVE flatten_techniques(_)
flatten_techniques(root) ==
    IF root = <<>> THEN <<>>
    ELSE LET key == Head(root)[1]
             value == Head(root)[2]
         IN  (IF IsDict(value) THEN <<value @@ ("id" :> key)>> ELSE <<>>)
             \o flatten_techniques(Tail(root))

\* The pairs of a mapping whose value is a mapping with the field `field`.
RECURSIVE EntriesWith(_, _)
EntriesWith(field, items) ==
    IF items = <<>> THEN <<>>
    ELSE (IF IsDict(Head(items)[2]) /\ field \in DOMAIN Head(items)[2]
          THEN <<Head(items)>> ELSE <<>>)
         \o EntriesWith(field, Tail(items))

\* (value["id"], value) for each pair
RECURSIVE KeyedById(_)
KeyedById(items) ==
    IF items = <<>> THEN <<>>
    ELSE << <<Head(items)[2].id, Head(items)[2]>> >> \o KeyedById(Tail(items))

flatten_armour_materials(root) ==
    sorted_by_key(EntriesWith("name", Get(Get(root, "materials", <<>>), "armour", NoEntries)))

flatten_armour_pieces(root) ==
    sorted_by_key(KeyedById(EntriesWith("id", Get(root, "armour_pieces", NoEntries))))

flatten_combat_tests(root) ==
    sorted_by_key(KeyedById(EntriesWith("id", Get(root, "combat_tests", NoEntries))))

-----------------------------------------------------------------------------
(* generate_zig and the identifier drift check *)

MaxTechIds == 3

\* Technique ids that may occur in the input; the committed enumeration may
\* also hold one id that never occurs in the input.
TechIds == 1..MaxTechIds
OracleIds == 1..(MaxTechIds + 1)

\* The values a technique key can carry in the input.
TechniqueValues(key) ==
    { [name |-> key],                   \* no id of its own: defaults to the key
      [name |-> key, id |-> key],       \* explicit id
      [name |-> key, id |-> EmptyStr] } \* explicit empty id

\* All technique mappings over the keys 1..n, keys in ascending order.
RECURSIVE TechniqueMaps(_)
TechniqueMaps(n) ==
    IF n = 0 THEN {<<>>}
    ELSE LET rest == TechniqueMaps(n - 1)
         IN  rest \cup {m \o << <<n, v>> >> : m \in rest, v \in TechniqueValues(n)}

OneWeapon == [items |-> << <<"swords", [items |-> << <<"knights_sword",
                 [name |-> "Knight's Sword", weight_kg |-> 11, length_m |-> 8]>> >>]>> >>]
OneSpecies == << <<1, [name |-> "dwarf"]>> >>

\* Datasets that are present and yield no record: a weapon tree without a
\* named node, a material without name, a piece and a test without id.
NoRecords ==
    [weapons |-> [items |-> << <<"version", ScalarValue>>,
                              <<"swords", [items |-> <<>>]>> >>],
     materials |-> [armour |-> << <<1, [shielding |-> <<>>]>> >>],
     armour_pieces |-> << <<1, [name |-> 1]>> >>,
     combat_tests |-> << <<1, [description |-> 1]>> >>,
     tissue_templates |-> <<>>,
     species |-> <<>>]

\* Datasets an audit finds fault with: a piece without material or coverage
\* and a piece on an undefined material, a template without layers, a body
\* plan whose part names an undefined tissue template.
FaultyRecords ==
    [materials |-> [armour |-> << <<1, [name |-> 1]>> >>],
     armour_pieces |-> << <<1, [id |-> 1, name |-> 1]>>,
                          <<2, [id |-> 2, name |-> 2, material |-> 2,
                                coverage |-> <<[part_tags |-> <<"torso">>]>>]>> >>,
     tissue_templates |-> << <<1, [layers |-> <<>>]>> >>,
     body_plans |-> << <<1, [name |-> 1,
                             parts |-> << <<"torso", [tissue_template |-> 2]>> >>]>> >>]

OneTest == << <<1, [id |-> 1, description |-> 1]>> >>

GenInputs ==
    { [techniques |-> t] @@ other :
        t \in TechniqueMaps(MaxTechIds),
        other \in { <<>>,
                    [species |-> OneSpecies],
                    [species |-> OneSpecies, weapons |-> OneWeapon],
                    NoRecords,
                    FaultyRecords,
                    [combat_tests |-> OneTest, weapons |-> OneWeapon] } }

\* The stripped lines of the file at TECHNIQUE_ENUM_PATH.
DeclLine == [kind |-> "decl"]         \* starts with "pub const TechniqueID"
EndLine == [kind |-> "end"]           \* starts with "};"
CommentLine == [kind |-> "comment"]   \* starts with "//"
BlankLine == [kind |-> "blank"]
TokenLine(id) == [kind |-> "token", id |-> id]   \* "<id>," with or without a trailing comment

RECURSIVE TokenLines(_, _)
TokenLines(ids, n) ==
    IF n = 0 THEN <<>>
    ELSE TokenLines(ids, n - 1) \o (IF n \in ids THEN <<TokenLine(n)>> ELSE <<>>)

\* A file that declares exactly the ids of O, with tokens outside the block,
\* a comment line and a blank line inside it.
EnumFile(O) ==
    [exists |-> TRUE,
     lines |-> <<TokenLine(1), BlankLine, DeclLine, CommentLine>>
               \o TokenLines(O, MaxTechIds + 1)
               \o <<BlankLine, EndLine, TokenLine(2), EndLine>>]

NoFile == [exists |-> FALSE]
\* A file without the enumeration
OtherFile == [exists |-> TRUE, lines |-> <<TokenLine(1), EndLine, BlankLine>>]

Artifacts == {NoFile, OtherFile} \cup {EnumFile(O) : O \in SUBSET OracleIds}

\* load_existing_technique_ids, lines 960-974
RECURSIVE ScanLines(_, _, _)
ScanLines(lines, capture, ids) ==
    IF lines = <<>> THEN ids
    ELSE LET line == Head(lines) IN
         IF line.kind = "decl" THEN ScanLines(Tail(lines), TRUE, ids)
         ELSE IF ~capture THEN ScanLines(Tail(lines), capture, ids)
         ELSE IF line.kind = "end" THEN ids
         ELSE IF line.kind \in {"comment", "blank"} THEN ScanLines(Tail(lines), capture, ids)
         ELSE ScanLines(Tail(lines), capture,
                        IF Truthy(line.id) THEN ids \cup {line.id} ELSE ids)

\* load_existing_technique_ids, lines 953-974
load_existing_technique_ids(file) ==
    IF ~file.exists THEN {} ELSE ScanLines(file.lines, FALSE, {})

\* line 1318
CueIds(techniques_raw) ==
    {techniques_raw[i].id : i \in {j \in 1..Len(techniques_raw) : Truthy(techniques_raw[j].id)}}

\* sorted(set): ascending list of the members
RECURSIVE SortedSet(_)
SortedSet(S) ==
    IF S = {} THEN <<>>
    ELSE LET m == CHOOSE x \in S : \A y \in S : x <= y
         IN  <<m>> \o SortedSet(S \ {m})

\* lines 1321-1322
Missing(existing, cue) == SortedSet(existing \ cue)
Extra(existing, cue) == SortedSet(cue \ existing)

\* Mutant: only the missing ids are tested.
DriftDetected_MissingOnly(existing, cue) ==
    /\ existing # {}
    /\ Missing(existing, cue) # <<>>

\* Mutant: the `if existing_ids:` guard is lost.
DriftDetected_NoGuard(existing, cue) ==
    ~(Missing(existing, cue) = <<>> /\ Extra(existing, cue) = <<>>)

\* line 1320 and 1323: the check runs and finds a difference
DriftDetected(existing, cue) ==
    /\ existing # {}
    /\ ~(Missing(existing, cue) = <<>> /\ Extra(existing, cue) = <<>>)

\* lines 1324-1327: what is printed to stderr
DriftMessages(existing, cue) ==
    (IF Missing(existing, cue) # <<>>
     THEN << <<"Missing techniques in CUE:", Missing(existing, cue)>> >> ELSE <<>>)
    \o
    (IF Extra(existing, cue) # <<>>
     THEN << <<"Unexpected techniques in CUE:", Extra(existing, cue)>> >> ELSE <<>>)

Section(name) == <<[section |-> name]>>

\* Mutant: the armour piece table is never emitted.
SectionIf_DropsArmourPieces(cond, name) ==
    IF cond /\ name # "armour_pieces" THEN Section(name) ELSE <<>>

SectionIf(cond, name) == IF cond THEN Section(name) ELSE <<>>

\* lines 1329-1383: the sections of the returned text, in order
Sections(d, cue) ==
    LET weapons == flatten_weapons(Get(d, "weapons", <<>>))
        techniques == flatten_techniques(Get(d, "techniques", NoEntries))
        tissue_templates == Get(d, "tissue_templates", NoEntries)
        body_plans_root == Get(d, "body_plans", NoEntries)
        species_root == Get(d, "species", NoEntries)
        armour_materials == flatten_armour_materials(d)
        armour_pieces == flatten_armour_pieces(d)
        combat_tests == flatten_combat_tests(d)
        has_data == \/ weapons # <<>> \/ techniques # <<>> \/ tissue_templates # <<>>
                    \/ body_plans_root # <<>> \/ species_root # <<>>
                    \/ armour_materials # <<>> \/ armour_pieces # <<>>
                    \/ combat_tests # <<>>
    IN  Section("banner")
        \o SectionIf(cue # {}, "GeneratedTechniqueID")
        \o SectionIf(weapons # <<>>, "weapons")
        \o SectionIf(techniques # <<>>, "techniques")
        \o SectionIf(tissue_templates # <<>>, "tissue_templates")
        \o SectionIf(body_plans_root # <<>>, "body_plans")
        \o SectionIf(species_root # <<>>, "species")
        \o SectionIf(armour_materials # <<>>, "armour_materials")
        \o SectionIf(armour_pieces # <<>>, "armour_pieces")
        \o SectionIf(combat_tests # <<>>, "combat_tests")
        \o SectionIf(~has_data, "no_data_comment")

GenInit ==
    /\ SortIdle /\ AuditIdle
    /\ args = [audit_report |-> FALSE, audit_only |-> FALSE]
    /\ data \in GenInputs
    /\ artifact \in Artifacts
    /\ pc = "main"
    /\ stdout = <<>>
    /\ stderr = <<>>
    /\ exit_code = NotExited
    /\ cue_ids = {}
    /\ existing_ids = {}
    /\ zig_code = <<>>

\* main line 1391 is false, generate_zig is entered: lines 1314-1318
GenFlatten ==
    /\ pc = "main"
    /\ ~(args.audit_report \/ args.audit_only)
    /\ cue_ids' = CueIds(flatten_techniques(Get(data, "techniques", NoEntries)))
    /\ pc' = "gen_load"
    /\ UNCHANGED <<args, data, stdout, stderr, exit_code, artifact, existing_ids, zig_code, sortVars, auditVars>>

\* line 1319
GenLoadExisting ==
    /\ pc = "gen_load"
    /\ existing_ids' = load_existing_technique_ids(artifact)
    /\ pc' = "gen_check"
    /\ UNCHANGED <<args, data, stdout, stderr, exit_code, artifact, cue_ids, zig_code, sortVars, auditVars>>

\* lines 1320-1328, the branch that ends in sys.exit(1)
GenDriftAbort ==
    /\ pc = "gen_check"
    /\ DriftDetected(existing_ids, cue_ids)
    /\ stderr' = stderr \o DriftMessages(existing_ids, cue_ids)
    /\ exit_code' = 1
    /\ pc' = "exited"
    /\ UNCHANGED <<args, data, stdout, artifact, cue_ids, existing_ids, zig_code, sortVars, auditVars>>

\* lines 1320-1383 when the check is skipped or finds no difference
GenEmit ==
    /\ pc = "gen_check"
    /\ ~DriftDetected(existing_ids, cue_ids)
    /\ zig_code' = Sections(data, cue_ids)
    /\ pc' = "gen_return"
    /\ UNCHANGED <<args, data, stdout, stderr, exit_code, artifact, cue_ids, existing_ids, sortVars, auditVars>>

\* line 1424 and the normal end of the process
MainWriteZig ==
    /\ pc = "gen_return"
    /\ stdout' = stdout \o zig_code
    /\ exit_code' = 0
    /\ pc' = "exited"
    /\ UNCHANGED <<args, data, stderr, artifact, cue_ids, existing_ids, zig_code, sortVars, auditVars>>

GenNext == GenFlatten \/ GenLoadExisting \/ GenDriftAbort \/ GenEmit \/ MainWriteZig

SpecGen == GenInit /\ [][GenNext]_vars

-----------------------------------------------------------------------------
(* AuditEntry and AuditReport *)

\* Numbers of the input are given in thousandths.  The inputs drawn below
\* are multiples of 125 (eighths), on which the program's floating-point
\* sums and comparisons are exact.
Thousandths(n) == n

\* Python floats are IEEE-754 binary64.  A float is modelled as the record
\* [milli, err] of value milli/1000 + err/FloatUnit, where FloatUnit is
\* 125 * 2^62: milli is the decimal it stands for, in thousandths, and err
\* the distance of the binary64 value from that decimal.  One unit in the
\* last place of a float in [2^k, 2^(k+1)) is 125 * 2^(k+10) err units, an
\* integer for every float of at least 2^-10.  All results are exact.
Float(milli, err) == [milli |-> milli, err |-> err]

\* 2^k mod 125 for k in 0..59; 2^20 mod 125 is 76
Pow2Mod125(k) == ((76^(k \div 20)) * ((2^(k % 20)) % 125)) % 125

\* The spacing of the floats around the positive value milli/1000 +
\* err/FloatUnit is 125 * 2^j err units, with this j.
FloatGrid(milli, err) ==
    LET S == {j \in 0..12 : \/ 1000 * 2^j < 1024 * milli
                            \/ (1000 * 2^j = 1024 * milli /\ err >= 0)}
    IN  CHOOSE j \in S : \A i \in S : i <= j

\* (milli * 2^59 + err) mod (125 * 2^j): the distance of the value above
\* the nearest multiple of 125 * 2^j below it
FloatResidue(milli, err, j) ==
    LET g == 125 * 2^j
    IN  ((2^j) * (((milli % 125) * Pow2Mod125(59 - j)) % 125) + (err % g)) % g

\* Round a positive value to the nearest float, ties to even.  A value
\* with milli = 0 arises from the exact difference of two close floats.
RoundPositive(milli, err) ==
    IF milli = 0 THEN Float(milli, err)
    ELSE LET j == FloatGrid(milli, err)
             g == 125 * 2^j
             r == FloatResidue(milli, err, j)
         IN  IF r = 0 THEN Float(milli, err)
             ELSE IF 2 * r < g THEN Float(milli, err - r)
             ELSE IF 2 * r > g THEN Float(milli, err + g - r)
             ELSE IF FloatResidue(milli, err, j + 1) < g THEN Float(milli, err - r)
             ELSE Float(milli, err + g - r)

float_round(milli, err) ==
    IF milli < 0
    THEN LET p == RoundPositive(-milli, -err) IN Float(-p.milli, -p.err)
    ELSE RoundPositive(milli, err)

\* The float a decimal literal of the input is parsed to (json.load), and
\* the float of a literal of the code (1.0, 0.05, 1.5)
Double(milli) == float_round(milli, 0)

\* x + y and x - y
float_add(x, y) == float_round(x.milli + y.milli, x.err + y.err)
float_sub(x, y) == float_round(x.milli - y.milli, x.err - y.err)

\* abs(x)
float_abs(x) == IF x.milli < 0 \/ (x.milli = 0 /\ x.err < 0) THEN Float(-x.milli, -x.err) ELSE x

\* x > y
float_gt(x, y) == x.milli > y.milli \/ (x.milli = y.milli /\ x.err > y.err)

\* f"{x:.3f}" and f"{x:.2f}" of a float that is not negative: the decimal
\* with three or two places nearest to the exact value, in thousandths and
\* in hundredths
Fixed3(x) == x.milli
Fixed2(x) ==
    LET q == x.milli \div 10
        r == x.milli % 10
    IN  IF r < 5 THEN q
        ELSE IF r > 5 THEN q + 1
        ELSE IF x.err > 0 THEN q + 1
        ELSE IF x.err < 0 THEN q
        ELSE IF q % 2 = 0 THEN q ELSE q + 1

\* AuditEntry(dataset, id, fields) with empty warnings and errors (lines 25-31)
AuditEntry(dataset, id, fields) ==
    [dataset |-> dataset, id |-> id, fields |-> fields,
     warnings |-> <<>>, errors |-> <<>>]

\* entry.warnings.append(msg) under a condition; a message is the tuple of
\* its text and the values formatted into it
WarnIf(cond, msg) == IF cond THEN <<msg>> ELSE <<>>

ZeroCounts == [total |-> 0, warnings |-> 0, errors |-> 0]

\* Mutant: once the report holds an error, no further entry is recorded.
add_entry_AbortAfterError(rep, entry) ==
    IF \E i \in 1..Len(rep.entries) : rep.entries[i].errors # <<>>
    THEN rep
    ELSE [rep EXCEPT !.entries = Append(@, entry)]

\* Mutant: the summary counts the messages of an entry, not the entry.
add_entry_CountsMessages(rep, entry) ==
    LET ds == entry.dataset
        cur == IF ds \in DOMAIN rep.summary THEN rep.summary[ds] ELSE ZeroCounts
        new == [total |-> cur.total + 1,
                warnings |-> cur.warnings + Len(entry.warnings),
                errors |-> cur.errors + Len(entry.errors)]
    IN  [rep EXCEPT !.entries = Append(@, entry),
                    !.summary = (ds :> new) @@ @]

\* AuditReport.add_entry (lines 50-59)
add_entry(rep, entry) ==
    LET ds == entry.dataset
        cur == IF ds \in DOMAIN rep.summary THEN rep.summary[ds] ELSE ZeroCounts
        new == [total |-> cur.total + 1,
                warnings |-> cur.warnings + (IF entry.warnings # <<>> THEN 1 ELSE 0),
                errors |-> cur.errors + (IF entry.errors # <<>> THEN 1 ELSE 0)]
    IN  [rep EXCEPT !.entries = Append(@, entry),
                    !.summary = (ds :> new) @@ @]

\* Mutant: a cross-reference error is also put on the first entry of the
\* report and counted in the row of its dataset.
add_cross_ref_error_OnEntry(rep, msg) ==
    IF rep.entries = <<>> THEN [rep EXCEPT !.cross_ref_errors = Append(@, msg)]
    ELSE [rep EXCEPT !.cross_ref_errors = Append(@, msg),
                     !.entries[1].errors = Append(@, msg),
                     !.summary[rep.entries[1].dataset].errors = @ + 1]

\* AuditReport.add_cross_ref_error (lines 61-62)
add_cross_ref_error(rep, msg) == [rep EXCEPT !.cross_ref_errors = Append(@, msg)]

\* Mutant: only cross-reference errors count as errors.
has_errors_CrossRefOnly(rep) == rep.cross_ref_errors # <<>>

\* AuditReport.has_errors (lines 64-68)
has_errors(rep) ==
    \/ \E i \in 1..Len(rep.entries) : rep.entries[i].errors # <<>>
    \/ rep.cross_ref_errors # <<>>

\* AuditReport.warning_count (lines 70-71)
warning_count(rep) ==
    Cardinality({i \in 1..Len(rep.entries) : rep.entries[i].warnings # <<>>})

\* Mutant: cross-reference errors are not counted.
error_count_EntriesOnly(rep) ==
    Cardinality({i \in 1..Len(rep.entries) : rep.entries[i].errors # <<>>})

\* AuditReport.error_count (lines 73-74)
error_count(rep) ==
    Cardinality({i \in 1..Len(rep.entries) : rep.entries[i].errors # <<>>})
    + Len(rep.cross_ref_errors)

\* sorted(self.summary.items()): the dataset names in alphabetical order
AlphabeticalDatasets ==
    <<"armour_materials", "armour_pieces", "body_plans",
      "techniques", "tissue_templates", "weapons">>

\* lines 94-99: the status banner
StatusLine(total_errors, total_warnings) ==
    IF total_errors > 0 THEN "FAILED"
    ELSE IF total_warnings > 0 THEN "PASSED with warnings"
    ELSE "PASSED"

\* AuditReport.to_markdown (lines 76-156): the summary rows, the status
\* banner with its counts, and the cross-reference section
to_markdown(rep) ==
    [rendered |-> TRUE,
     summary_rows |-> SelectSeq(AlphabeticalDatasets, LAMBDA ds : ds \in DOMAIN rep.summary),
     status |-> StatusLine(error_count(rep), warning_count(rep)),
     total_errors |-> error_count(rep),
     total_warnings |-> warning_count(rep),
     cross_ref_section |-> rep.cross_ref_errors]

-----------------------------------------------------------------------------
(* The dataset auditors *)

\* audit_weapons, one iteration (lines 987-1024)
WeaponEntry(weapon_id, d) ==
    LET phys == Get(d, "derived", <<>>)
        entry == AuditEntry("weapons", weapon_id,
                   [name |-> Get(d, "name", EmptyStr),
                    weight_kg |-> Get(d, "weight_kg", 0),
                    length_m |-> Get(d, "length_m", 0),
                    balance |-> Get(d, "balance", 0),
                    moment_of_inertia |-> Get(phys, "moment_of_inertia", 0),
                    effective_mass |-> Get(phys, "effective_mass", 0),
                    reference_energy_j |-> Get(phys, "reference_energy_j", 0),
                    geometry_coeff |-> Get(phys, "geometry_coeff", 0),
                    rigidity_coeff |-> Get(phys, "rigidity_coeff", 0)])
    IN  [entry EXCEPT !.warnings =
            WarnIf(Get(phys, "moment_of_inertia", 0) = 0, <<"moment_of_inertia is 0">>)
            \o WarnIf(Get(phys, "effective_mass", 0) = 0, <<"effective_mass is 0">>)
            \o WarnIf(Get(phys, "reference_energy_j", 0) = 0, <<"reference_energy_j is 0">>)
            \o WarnIf(Get(phys, "geometry_coeff", 0) = 0, <<"geometry_coeff is 0">>)
            \o WarnIf(Get(phys, "rigidity_coeff", 0) = 0, <<"rigidity_coeff is 0">>)
            \o WarnIf(Get(d, "weight_kg", 0) = 0, <<"weight_kg is 0 (base data)">>)
            \o WarnIf(Get(d, "length_m", 0) = 0, <<"length_m is 0 (base data)">>)]

\* audit_weapons (lines 982-1024)
RECURSIVE audit_weapons(_, _)
audit_weapons(weapons, rep) ==
    IF weapons = <<>> THEN rep
    ELSE LET weapon_id == Head(weapons)[1]
             withId == [rep EXCEPT !.weapon_ids = @ \cup {weapon_id}]
         IN  audit_weapons(Tail(weapons),
                           add_entry(withId, WeaponEntry(weapon_id, Head(weapons)[2])))

\* Mutant: only the weapon channel counts as a channel.
AnyChannel_WeaponOnly(channels) == Get(channels, "weapon", FALSE)

\* any(channels.values())
AnyChannel(channels) == \E k \in DOMAIN channels : channels[k]

\* audit_techniques, one iteration (lines 1032-1070)
TechniqueEntry(tech) ==
    LET tech_id == Get(tech, "id", EmptyStr)
        axis == Get(tech, "axis_bias", <<>>)
        channels == Get(tech, "channels", <<>>)
        attack_mode == Get(tech, "attack_mode", "none")
        entry == AuditEntry("techniques", tech_id,
                   [name |-> Get(tech, "name", EmptyStr),
                    attack_mode |-> attack_mode,
                    axis_geometry_mult |-> Get(axis, "geometry_mult", Thousandths(1000)),
                    axis_energy_mult |-> Get(axis, "energy_mult", Thousandths(1000)),
                    axis_rigidity_mult |-> Get(axis, "rigidity_mult", Thousandths(1000)),
                    channels |-> channels])
    IN  [entry EXCEPT !.warnings =
            (IF DOMAIN axis = {}
             THEN << <<"axis_bias not defined (using defaults)">> >>
             ELSE WarnIf("geometry_mult" \notin DOMAIN axis,
                         <<"axis_bias.geometry_mult not set (default 1.0)">>)
                  \o WarnIf("energy_mult" \notin DOMAIN axis,
                            <<"axis_bias.energy_mult not set (default 1.0)">>)
                  \o WarnIf("rigidity_mult" \notin DOMAIN axis,
                            <<"axis_bias.rigidity_mult not set (default 1.0)">>))
            \o WarnIf(attack_mode # "none" /\ ~AnyChannel(channels),
                      <<"No channels defined for combat technique">>)]

\* audit_techniques (lines 1027-1070)
RECURSIVE audit_techniques(_, _)
audit_techniques(techniques, rep) ==
    IF techniques = <<>> THEN rep
    ELSE LET tech_id == Get(Head(techniques), "id", EmptyStr)
             withId == [rep EXCEPT !.technique_ids = @ \cup {tech_id}]
         IN  audit_techniques(Tail(techniques),
                              add_entry(withId, TechniqueEntry(Head(techniques))))

\* lines 1112-1118: the warning of one susceptibility axis
AxisWarning(suscept, axis) ==
    LET thr == Get(suscept, axis \o "_threshold", 0)
        ratio == Get(suscept, axis \o "_ratio", Thousandths(1000))
    IN  WarnIf(thr = 0 /\ ratio < Thousandths(1000),
               <<"threshold=0 with ratio below 1 means all damage is reduced", axis,
                 Fixed2(Double(ratio))>>)

\* audit_armour_materials, one iteration (lines 1078-1120)
ArmourMaterialEntry(mat_id, d) ==
    LET shielding == Get(d, "shielding", <<>>)
        suscept == Get(d, "susceptibility", <<>>)
        deflection == Get(shielding, "deflection", 0)
        absorption == Get(shielding, "absorption", 0)
        dispersion == Get(shielding, "dispersion", 0)
        shield_sum == float_add(float_add(Double(deflection), Double(absorption)),
                                Double(dispersion))
        entry == AuditEntry("armour_materials", mat_id,
                   [name |-> Get(d, "name", EmptyStr),
                    deflection |-> deflection,
                    absorption |-> absorption,
                    dispersion |-> dispersion,
                    geometry_threshold |-> Get(suscept, "geometry_threshold", 0),
                    geometry_ratio |-> Get(suscept, "geometry_ratio", Thousandths(1000)),
                    energy_threshold |-> Get(suscept, "energy_threshold", 0),
                    energy_ratio |-> Get(suscept, "energy_ratio", Thousandths(1000)),
                    rigidity_threshold |-> Get(suscept, "rigidity_threshold", 0),
                    rigidity_ratio |-> Get(suscept, "rigidity_ratio", Thousandths(1000))])
    IN  [entry EXCEPT !.warnings =
            WarnIf(float_gt(shield_sum, Double(1500)),
                   <<"Shielding coefficients sum above 1.5", Fixed2(shield_sum)>>)
            \o AxisWarning(suscept, "geometry")
            \o AxisWarning(suscept, "energy")
            \o AxisWarning(suscept, "rigidity")]

\* audit_armour_materials (lines 1073-1120)
RECURSIVE audit_armour_materials(_, _)
audit_armour_materials(materials, rep) ==
    IF materials = <<>> THEN rep
    ELSE LET mat_id == Head(materials)[1]
             withId == [rep EXCEPT !.armour_material_ids = @ \cup {mat_id}]
         IN  audit_armour_materials(Tail(materials),
                 add_entry(withId, ArmourMaterialEntry(mat_id, Head(materials)[2])))

\* Mutant: the coverage loop stops at the first entry without part tags.
RECURSIVE CoverageWarnings_FirstOnly(_, _)
CoverageWarnings_FirstOnly(coverage, i) ==
    IF i >= Len(coverage) THEN <<>>
    ELSE IF Get(coverage[i + 1], "part_tags", <<>>) = <<>>
    THEN << <<"Coverage entry has no part_tags", i>> >>
    ELSE CoverageWarnings_FirstOnly(coverage, i + 1)

\* lines 1151-1154: one warning per coverage entry without part tags
RECURSIVE CoverageWarnings(_, _)
CoverageWarnings(coverage, i) ==
    IF i >= Len(coverage) THEN <<>>
    ELSE WarnIf(Get(coverage[i + 1], "part_tags", <<>>) = <<>>,
                <<"Coverage entry has no part_tags", i>>)
         \o CoverageWarnings(coverage, i + 1)

\* audit_armour_pieces, one iteration (lines 1128-1156)
ArmourPieceEntry(piece_id, d) ==
    LET material_id == Get(d, "material", EmptyStr)
        coverage == Get(d, "coverage", <<>>)
        entry == AuditEntry("armour_pieces", piece_id,
                   [name |-> Get(d, "name", EmptyStr),
                    material_id |-> material_id,
                    coverage_count |-> Len(coverage)])
    IN  [entry EXCEPT
            !.errors = WarnIf(~Truthy(material_id), <<"No material specified">>)
                       \o WarnIf(coverage = <<>>, <<"No coverage entries defined">>),
            !.warnings = IF coverage = <<>> THEN <<>> ELSE CoverageWarnings(coverage, 0)]

\* Mutant: the id of a piece is recorded only when its entry has no error.
RECURSIVE audit_armour_pieces_IdOfCleanOnly(_, _)
audit_armour_pieces_IdOfCleanOnly(pieces, rep) ==
    IF pieces = <<>> THEN rep
    ELSE LET piece_id == Head(pieces)[1]
             entry == ArmourPieceEntry(piece_id, Head(pieces)[2])
             withId == IF entry.errors = <<>>
                       THEN [rep EXCEPT !.armour_piece_ids = @ \cup {piece_id}]
                       ELSE rep
         IN  audit_armour_pieces_IdOfCleanOnly(Tail(pieces), add_entry(withId, entry))

\* Mutant: the material of a piece is looked up while the piece is audited,
\* against the material ids recorded by then.
RECURSIVE audit_armour_pieces_EagerCrossRef(_, _)
audit_armour_pieces_EagerCrossRef(pieces, rep) ==
    IF pieces = <<>> THEN rep
    ELSE LET piece_id == Head(pieces)[1]
             entry == ArmourPieceEntry(piece_id, Head(pieces)[2])
             mat_id == entry.fields.material_id
             withId == [rep EXCEPT !.armour_piece_ids = @ \cup {piece_id}]
             looked == IF Truthy(mat_id) /\ mat_id \notin rep.armour_material_ids
                       THEN add_cross_ref_error(withId,
                              <<"Armour piece references unknown material", piece_id, mat_id>>)
                       ELSE withId
         IN  audit_armour_pieces_EagerCrossRef(Tail(pieces), add_entry(looked, entry))

\* audit_armour_pieces (lines 1123-1156)
RECURSIVE audit_armour_pieces(_, _)
audit_armour_pieces(pieces, rep) ==
    IF pieces = <<>> THEN rep
    ELSE LET piece_id == Head(pieces)[1]
             withId == [rep EXCEPT !.armour_piece_ids = @ \cup {piece_id}]
         IN  audit_armour_pieces(Tail(pieces),
                 add_entry(withId, ArmourPieceEntry(piece_id, Head(pieces)[2])))

\* sum(layer.get("thickness_ratio", 0) for layer in layers)
RECURSIVE SumFrom(_, _)
SumFrom(total, layers) ==
    IF layers = <<>> THEN total
    ELSE SumFrom(float_add(total, Double(Get(Head(layers), "thickness_ratio", 0))),
                 Tail(layers))

ThicknessSum(layers) == SumFrom(Double(0), layers)

\* [layer.get("material_id", "") for layer in layers]
LayerMaterials(layers) ==
    [i \in 1..Len(layers) |-> Get(layers[i], "material_id", EmptyStr)]

\* Mutant: only a layer without the field material_id is an error, a layer
\* whose material id is the empty string is not.
RECURSIVE LayerErrors_MissingFieldOnly(_, _)
LayerErrors_MissingFieldOnly(layers, i) ==
    IF i >= Len(layers) THEN <<>>
    ELSE WarnIf("material_id" \notin DOMAIN layers[i + 1], <<"Layer has no material_id", i>>)
         \o LayerErrors_MissingFieldOnly(layers, i + 1)

\* lines 1197-1199: one error per layer without material id
RECURSIVE LayerErrors(_, _)
LayerErrors(layers, i) ==
    IF i >= Len(layers) THEN <<>>
    ELSE WarnIf(~Truthy(Get(layers[i + 1], "material_id", EmptyStr)),
                <<"Layer has no material_id", i>>)
         \o LayerErrors(layers, i + 1)

\* abs(x - y)
AbsDiff(x, y) == float_abs(float_sub(x, y))

\* audit_tissue_templates, one iteration (lines 1164-1201)
TissueTemplateEntry(tpl_id, tpl) ==
    LET layers == Get(tpl, "layers", <<>>)
        thickness_sum == ThicknessSum(layers)
        entry == AuditEntry("tissue_templates", tpl_id,
                   [notes |-> Get(tpl, "notes", EmptyStr),
                    layer_count |-> Len(layers),
                    thickness_sum |-> thickness_sum,
                    materials |-> LayerMaterials(layers)])
    IN  [entry EXCEPT
            !.warnings = WarnIf(float_gt(AbsDiff(thickness_sum, Double(1000)), Double(50)),
                                <<"Thickness ratios do not sum to ~1.0", Fixed3(thickness_sum)>>),
            !.errors = WarnIf(layers = <<>>, <<"No layers defined">>)
                       \o LayerErrors(layers, 0)]

\* lines 1181-1184: the non-empty material ids of the layers
CollectedMaterials(tpl) ==
    Range(LayerMaterials(Get(tpl, "layers", <<>>))) \ {EmptyStr}

\* audit_tissue_templates (lines 1159-1201)
RECURSIVE audit_tissue_templates(_, _)
audit_tissue_templates(templates, rep) ==
    IF templates = <<>> THEN rep
    ELSE LET tpl_id == Head(templates)[1]
             tpl == Head(templates)[2]
             withIds == [rep EXCEPT !.tissue_template_ids = @ \cup {tpl_id},
                                    !.tissue_material_ids = @ \cup CollectedMaterials(tpl)]
         IN  audit_tissue_templates(Tail(templates),
                 add_entry(withIds, TissueTemplateEntry(tpl_id, tpl)))

\* lines 1230-1235: names of the parts without tissue template, in order
MissingTissue(plan_parts) ==
    LET missing == SelectSeq(plan_parts,
                     LAMBDA kv : ~Truthy(Get(kv[2], "tissue_template", EmptyStr)))
    IN  [i \in 1..Len(missing) |-> missing[i][1]]

\* lines 1237-1239: names of the parts with zero or missing geometry, in order
MissingGeometry(plan_parts) ==
    LET missing == SelectSeq(plan_parts,
                     LAMBDA kv : \/ DOMAIN Get(kv[2], "geometry", <<>>) = {}
                                 \/ Get(Get(kv[2], "geometry", <<>>), "thickness_cm", 0) = 0)
    IN  [i \in 1..Len(missing) |-> missing[i][1]]

\* lines 1231-1233: the set tissue_refs
TissueRefs(plan_parts) ==
    {Get(plan_parts[i][2], "tissue_template", EmptyStr) : i \in 1..Len(plan_parts)}
    \ {EmptyStr}

\* Mutant: beyond five names the suffix counts all the names.
MoreThanFive_CountsAll(names) == IF Len(names) > 5 THEN Len(names) ELSE 0

\* names[:5] and the count of the "(+N more)" suffix (0: no suffix)
FirstFive(names) == SubSeq(names, 1, IF Len(names) > 5 THEN 5 ELSE Len(names))
MoreThanFive(names) == IF Len(names) > 5 THEN Len(names) - 5 ELSE 0

\* list(a_set): the members in the iteration order given by `order`, a
\* list of all the values a member can be
ListOf(S, order) == SelectSeq(order, LAMBDA x : x \in S)

\* audit_body_plans, one iteration (lines 1210-1255)
BodyPlanEntry(plan_id, plan, order) ==
    LET plan_parts == Get(plan, "parts", <<>>)
        missing_tissue == MissingTissue(plan_parts)
        missing_geometry == MissingGeometry(plan_parts)
        entry == AuditEntry("body_plans", plan_id,
                   [name |-> Get(plan, "name", EmptyStr),
                    base_height_cm |-> Get(plan, "base_height_cm", 0),
                    base_mass_kg |-> Get(plan, "base_mass_kg", 0),
                    part_count |-> Len(plan_parts),
                    tissue_templates_used |-> ListOf(TissueRefs(plan_parts), order)])
    IN  [entry EXCEPT
            !.errors = WarnIf(missing_tissue # <<>>,
                              <<"Parts missing tissue_template", FirstFive(missing_tissue),
                                MoreThanFive(missing_tissue)>>),
            !.warnings = WarnIf(missing_geometry # <<>>,
                                <<"Parts with zero/missing geometry", FirstFive(missing_geometry),
                                  MoreThanFive(missing_geometry)>>)]

\* audit_body_plans (lines 1204-1255)
RECURSIVE audit_body_plans(_, _, _)
audit_body_plans(plans, rep, order) ==
    IF plans = <<>> THEN rep
    ELSE LET plan_id == Head(plans)[1]
             withId == [rep EXCEPT !.body_plan_ids = @ \cup {plan_id}]
         IN  audit_body_plans(Tail(plans),
                 add_entry(withId, BodyPlanEntry(plan_id, Head(plans)[2], order)), order)

-----------------------------------------------------------------------------
(* validate_cross_references *)

\* The message of lines 1265-1267
UnknownMaterialMsg(piece_id, mat_id) ==
    <<"Armour piece references unknown material", piece_id, mat_id>>

\* The message of lines 1274-1276
UnknownTemplateMsg(plan_id, tpl_id) ==
    <<"Body plan references unknown tissue template", plan_id, tpl_id>>

\* Mutant: the material is looked up among the armour piece ids.
PieceMaterialUnknown_WrongSet(rep, entry) ==
    LET mat_id == Get(entry.fields, "material_id", EmptyStr)
    IN  Truthy(mat_id) /\ mat_id \notin rep.armour_piece_ids

\* Mutant: an empty material id is looked up like any other.
PieceMaterialUnknown_NoSkip(rep, entry) ==
    Get(entry.fields, "material_id", EmptyStr) \notin rep.armour_material_ids

\* line 1264
PieceMaterialUnknown(rep, entry) ==
    LET mat_id == Get(entry.fields, "material_id", EmptyStr)
    IN  Truthy(mat_id) /\ mat_id \notin rep.armour_material_ids

\* lines 1261-1267: the errors of the first loop, in entry order
RECURSIVE PieceCrossRefErrors(_, _)
PieceCrossRefErrors(rep, entries) ==
    IF entries = <<>> THEN <<>>
    ELSE LET entry == Head(entries)
         IN  (IF entry.dataset = "armour_pieces" /\ PieceMaterialUnknown(rep, entry)
              THEN <<UnknownMaterialMsg(entry.id, entry.fields.material_id)>>
              ELSE <<>>)
             \o PieceCrossRefErrors(rep, Tail(entries))

\* Mutant: an error for every part that uses an unknown template.
UnknownTemplates_PerPart(rep, entry) ==
    LET used == Get(entry.fields, "tissue_templates_used", <<>>)
        unknown == SelectSeq(used, LAMBDA tpl_id : tpl_id \notin rep.tissue_template_ids)
    IN  unknown \o unknown

\* lines 1272-1273: the unknown templates of one body plan entry, in order
UnknownTemplates(rep, entry) ==
    SelectSeq(Get(entry.fields, "tissue_templates_used", <<>>),
              LAMBDA tpl_id : tpl_id \notin rep.tissue_template_ids)

\* lines 1270-1276: the errors of the second loop, in entry order
RECURSIVE PlanCrossRefErrors(_, _)
PlanCrossRefErrors(rep, entries) ==
    IF entries = <<>> THEN <<>>
    ELSE LET entry == Head(entries)
             unknown == IF entry.dataset = "body_plans"
                        THEN UnknownTemplates(rep, entry) ELSE <<>>
         IN  [i \in 1..Len(unknown) |-> UnknownTemplateMsg(entry.id, unknown[i])]
             \o PlanCrossRefErrors(rep, Tail(entries))

\* report.add_cross_ref_error(msg) for each message, in order
RECURSIVE AddCrossRefErrors(_, _)
AddCrossRefErrors(rep, msgs) ==
    IF msgs = <<>> THEN rep
    ELSE AddCrossRefErrors(add_cross_ref_error(rep, Head(msgs)), Tail(msgs))

\* Mutant: the layer materials of the tissue templates are looked up too.
validate_cross_references_WithLayers(rep) ==
    LET unknown == SortedSet(rep.tissue_material_ids \ rep.armour_material_ids)
    IN  AddCrossRefErrors(rep,
            PieceCrossRefErrors(rep, rep.entries)
            \o PlanCrossRefErrors(rep, rep.entries)
            \o [i \in 1..Len(unknown) |->
                  <<"Tissue layer references unknown material", unknown[i]>>])

\* validate_cross_references (lines 1258-1276); the loops read only the
\* entries and the id sets, which add_cross_ref_error leaves alone
validate_cross_references(rep) ==
    AddCrossRefErrors(rep, PieceCrossRefErrors(rep, rep.entries)
                           \o PlanCrossRefErrors(rep, rep.entries))

\* run_audit (lines 1281-1304); `order` is the iteration order of the set of
\* tissue templates a body plan uses
run_audit(d, order) ==
    LET r1 == audit_weapons(flatten_weapons(Get(d, "weapons", <<>>)), EmptyReport)
        r2 == audit_techniques(flatten_techniques(Get(d, "techniques", NoEntries)), r1)
        r3 == audit_armour_materials(flatten_armour_materials(d), r2)
        r4 == audit_armour_pieces(flatten_armour_pieces(d), r3)
        r5 == audit_tissue_templates(Get(d, "tissue_templates", NoEntries), r4)
        r6 == audit_body_plans(Get(d, "body_plans", NoEntries), r5, order)
    IN  validate_cross_references(r6)

-----------------------------------------------------------------------------
(* Inputs of the audit *)

CleanWeapon ==
    [name |-> 1, weight_kg |-> 1125, length_m |-> 1000, balance |-> 500,
     derived |-> [moment_of_inertia |-> 375, effective_mass |-> 750,
                  reference_energy_j |-> 2000, geometry_coeff |-> 625,
                  rigidity_coeff |-> 875]]
\* no length, and derived data without moment of inertia
WarnedWeapon ==
    [name |-> 2, weight_kg |-> 500,
     derived |-> [effective_mass |-> 250, reference_energy_j |-> 1000,
                  geometry_coeff |-> 500, rigidity_coeff |-> 500]]

WeaponsInputs ==
    { [items |-> <<>>],
      [items |-> << <<"swords", [items |-> << <<"arming", CleanWeapon>>,
                                              <<"rusty", WarnedWeapon>> >>]>>,
                    <<"version", ScalarValue>> >>] }

CleanTechnique ==
    [name |-> 1, attack_mode |-> "thrust",
     axis_bias |-> [geometry_mult |-> 1250, energy_mult |-> 1000, rigidity_mult |-> 750],
     channels |-> [weapon |-> TRUE, off_hand |-> FALSE, footwork |-> FALSE]]
\* a combat technique without axis bias and without active channel
WarnedTechnique ==
    [name |-> 2, attack_mode |-> "swing",
     channels |-> [weapon |-> FALSE, off_hand |-> FALSE, footwork |-> FALSE]]

TechniquesInputs ==
    { <<>>, << <<1, CleanTechnique>>, <<2, WarnedTechnique>> >> }

CleanMaterial(name) ==
    [name |-> name,
     shielding |-> [deflection |-> 500, absorption |-> 500, dispersion |-> 500],
     susceptibility |-> [geometry_threshold |-> 250, geometry_ratio |-> 500]]
\* shielding sum 1.625, and an energy ratio below 1 with threshold 0
WarnedMaterial(name) ==
    [name |-> name,
     shielding |-> [deflection |-> 500, absorption |-> 500, dispersion |-> 625],
     susceptibility |-> [energy_ratio |-> 500]]

\* Material ids 1 and 2 can be defined by the input; UnknownMaterial never is.
UnknownMaterial == 3

ArmourMaterialsInputs ==
    { <<>>,
      << <<1, CleanMaterial(1)>> >>,
      << <<2, CleanMaterial(2)>>, <<1, WarnedMaterial(1)>>,
         <<UnknownMaterial, [shielding |-> <<>>]>> >> }

TaggedCoverage == [part_tags |-> <<"torso">>]
UntaggedCoverage == [part_tags |-> <<>>]

\* The values the armour piece of key k can have.
GoodPiece(k) ==
    [id |-> k, name |-> k, material |-> ((k - 1) % 2) + 1, coverage |-> <<TaggedCoverage>>]
DanglingPiece(k) ==
    [id |-> k, name |-> k, material |-> UnknownMaterial,
     coverage |-> <<TaggedCoverage, UntaggedCoverage>>]
BarePiece(k) == [id |-> k, name |-> k]

PieceValues(k) == {GoodPiece(k), DanglingPiece(k), BarePiece(k)}

MaxPieces == 2

\* All armour piece mappings over the keys 1..n, each key absent or present
RECURSIVE PieceMaps(_)
PieceMaps(n) ==
    IF n = 0 THEN {<<>>}
    ELSE LET rest == PieceMaps(n - 1)
         IN  rest \cup {<< <<n, v>> >> \o m : m \in rest, v \in PieceValues(n)}

\* ... and two more: an entry without id, and two keys whose values carry
\* the same id
ArmourPiecesInputs ==
    PieceMaps(MaxPieces)
    \cup { << <<1, [name |-> 1, material |-> 1]>>, <<2, GoodPiece(2)>> >>,
           << <<1, DanglingPiece(1)>>, <<2, DanglingPiece(1)>> >> }

\* The few armour piece mappings of the runs that vary every dataset
FewArmourPiecesInputs ==
    { <<>>,
      << <<1, GoodPiece(1)>> >>,
      << <<2, DanglingPiece(2)>>, <<1, GoodPiece(1)>> >>,
      << <<1, BarePiece(1)>> >> }

Layer(material, ratio) == [material_id |-> material, thickness_ratio |-> ratio]
CleanTemplate == [layers |-> <<Layer(1, 250), Layer(2, 750)>>]
\* ratios sum to 1.125
WarnedTemplate == [layers |-> <<Layer(1, 500), Layer(1, 625)>>]
\* a layer without material id
FailedTemplate == [layers |-> <<[thickness_ratio |-> 1000]>>]

\* Template ids 1 and 2 can be defined by the input; UnknownTemplate never is.
UnknownTemplate == 3
TemplateIds == {1, 2, UnknownTemplate}

TissueTemplatesInputs ==
    { <<>>,
      << <<1, CleanTemplate>> >>,
      << <<2, WarnedTemplate>>, <<1, CleanTemplate>> >>,
      << <<1, FailedTemplate>>, <<2, [notes |-> 1]>> >> }

Part(template, thickness) ==
    [tissue_template |-> template, geometry |-> [thickness_cm |-> thickness]]

\* two parts on template 1
PlanA == [name |-> 1, base_height_cm |-> 1000, base_mass_kg |-> 1000,
          parts |-> << <<"torso", Part(1, 250)>>,
                       <<"head", Part(1, 125) @@ [parent |-> "torso"]>> >>]
\* three parts, two of them on the never defined template, one on template 2
PlanB == [name |-> 2,
          parts |-> << <<"torso", Part(UnknownTemplate, 250)>>,
                       <<"arm", Part(2, 125)>>,
                       <<"leg", Part(UnknownTemplate, 125)>> >>]
\* a part without tissue template and a part without thickness
PlanC == [name |-> 3,
          parts |-> << <<"torso", [geometry |-> [thickness_cm |-> 250]]>>,
                       <<"tail", [tissue_template |-> 1, geometry |-> [thickness_cm |-> 0]]>> >>]

BodyPlansInputs ==
    { <<>>,
      << <<1, PlanA>> >>,
      << <<2, PlanB>> >>,
      << <<1, PlanA>>, <<3, PlanC>>, <<2, PlanB>> >> }

Document(weapons, techniques, materials, pieces, templates, plans) ==
    [weapons |-> weapons, techniques |-> techniques,
     materials |-> [armour |-> materials], armour_pieces |-> pieces,
     tissue_templates |-> templates, body_plans |-> plans]

\* Inputs that vary every dataset
AuditInputs ==
    { Document(w, t, m, p, tt, b) :
        w \in WeaponsInputs, t \in TechniquesInputs, m \in ArmourMaterialsInputs,
        p \in FewArmourPiecesInputs, tt \in TissueTemplatesInputs, b \in BodyPlansInputs }

\* Inputs that vary the datasets of the cross-reference pass
CrossRefInputs ==
    { Document([items |-> <<>>], <<>>, m, p, tt, b) :
        m \in ArmourMaterialsInputs, p \in ArmourPiecesInputs,
        tt \in TissueTemplatesInputs, b \in BodyPlansInputs }

\* The command lines that select the audit branch (line 1391)
AuditArgs ==
    { [audit_report |-> TRUE, audit_only |-> FALSE],
      [audit_report |-> FALSE, audit_only |-> TRUE],
      [audit_report |-> TRUE, audit_only |-> TRUE] }

-----------------------------------------------------------------------------
(* run_audit and the audit branch of main *)

AuditInitWith(inputs, arguments) ==
    /\ SortIdle /\ GenIdle
    /\ args \in arguments
    /\ data \in inputs
    /\ pc = "main"
    /\ stdout = <<>>
    /\ stderr = <<>>
    /\ exit_code = NotExited
    /\ report = EmptyReport
    /\ markdown = NotRendered
    /\ report_file = <<>>

AuditStep(from, to, rep) ==
    /\ pc = from
    /\ pc' = to
    /\ report' = rep
    /\ UNCHANGED <<args, data, stdout, stderr, exit_code, markdown, report_file,
                   sortVars, genVars>>

\* main line 1391 is true, run_audit is entered: line 1283
AuditStart ==
    /\ args.audit_report \/ args.audit_only
    /\ AuditStep("main", "audit_weapons", EmptyReport)

\* lines 1286 and 1294
AuditWeapons ==
    AuditStep("audit_weapons", "audit_techniques",
              audit_weapons(flatten_weapons(Get(data, "weapons", <<>>)), report))

\* lines 1287 and 1295
AuditTechniques ==
    AuditStep("audit_techniques", "audit_armour_materials",
              audit_techniques(flatten_techniques(Get(data, "techniques", NoEntries)), report))

\* lines 1288 and 1296
AuditArmourMaterials ==
    AuditStep("audit_armour_materials", "audit_armour_pieces",
              audit_armour_materials(flatten_armour_materials(data), report))

\* lines 1289 and 1297
AuditArmourPieces ==
    AuditStep("audit_armour_pieces", "audit_tissue_templates",
              audit_armour_pieces(flatten_armour_pieces(data), report))

\* lines 1290 and 1298
AuditTissueTemplates ==
    AuditStep("audit_tissue_templates", "audit_body_plans",
              audit_tissue_templates(Get(data, "tissue_templates", NoEntries), report))

\* lines 1291 and 1299; list(tissue_refs) iterates a set, in some order
AuditBodyPlans ==
    \E order \in Orders(TemplateIds) :
        AuditStep("audit_body_plans", "validate_cross_references",
                  audit_body_plans(Get(data, "body_plans", NoEntries), report, order))

\* line 1302
ValidateCrossReferences ==
    AuditStep("validate_cross_references", "to_markdown",
              validate_cross_references(report))

\* line 1393
MainRender ==
    /\ pc = "to_markdown"
    /\ markdown' = to_markdown(report)
    /\ pc' = "write_report"
    /\ UNCHANGED <<args, data, stdout, stderr, exit_code, report, report_file,
                   sortVars, genVars>>

\* lines 1395-1401: the report goes to the file, or to standard output
MainWriteReport ==
    /\ pc = "write_report"
    /\ IF args.audit_report
       THEN /\ report_file' = report_file \o <<markdown>>
            /\ stderr' = stderr \o << <<"Audit report written to:">> >>
            /\ stdout' = stdout
       ELSE /\ stdout' = stdout \o <<markdown>>
            /\ UNCHANGED <<report_file, stderr>>
    /\ pc' = "exit_signal"
    /\ UNCHANGED <<args, data, exit_code, report, markdown, sortVars, genVars>>

\* lines 1404-1416: what the process tells about the outcome
ExitMessage(rep) ==
    IF has_errors(rep)
    THEN <<"Audit failed:", error_count(rep), warning_count(rep)>>
    ELSE IF warning_count(rep) > 0
    THEN <<"Audit passed with warning(s)", warning_count(rep)>>
    ELSE <<"Audit passed: all validations succeeded">>

\* Mutant: the process always ends successfully.
ExitCode_AlwaysZero(rep) == 0

\* lines 1404-1420: sys.exit(1) on errors, a plain return otherwise
ExitCode(rep) == IF has_errors(rep) THEN 1 ELSE 0

\* lines 1403-1420
MainExit ==
    /\ pc = "exit_signal"
    /\ stderr' = Append(stderr, ExitMessage(report))
    /\ exit_code' = ExitCode(report)
    /\ pc' = "exited"
    /\ UNCHANGED <<args, data, stdout, report, markdown, report_file, sortVars, genVars>>

AuditNext ==
    \/ AuditStart
    \/ AuditWeapons
    \/ AuditTechniques
    \/ AuditArmourMaterials
    \/ AuditArmourPieces
    \/ AuditTissueTemplates
    \/ AuditBodyPlans
    \/ ValidateCrossReferences
    \/ MainRender
    \/ MainWriteReport
    \/ MainExit

AuditInit == AuditInitWith(AuditInputs, AuditArgs)
SpecAudit == AuditInit /\ [][AuditNext]_vars

CrossRefInit == AuditInitWith(CrossRefInputs, {[audit_report |-> FALSE, audit_only |-> TRUE]})
SpecCrossRef == CrossRefInit /\ [][AuditNext]_vars

\* Runs that audit one tissue template, over its lists of layers: each
\* layer has one of the thickness ratios below or none.
MaxLayers == 2

ThicknessRatios ==
    {50, 150, 350, 500, 550, 700, 800, 900, 949, 950, 1000, 1050, 1051, 1100}

LayerValues ==
    {Layer(1, ratio) : ratio \in ThicknessRatios} \cup {[material_id |-> 1]}

RECURSIVE LayerLists(_)
LayerLists(n) ==
    IF n = 0 THEN {<<>>}
    ELSE LET rest == LayerLists(n - 1)
         IN  rest \cup {Append(l, v) : l \in {m \in rest : Len(m) = n - 1}, v \in LayerValues}

ThicknessInputs ==
    { Document([items |-> <<>>], <<>>, <<>>, <<>>, << <<1, [layers |-> l]>> >>, <<>>) :
        l \in LayerLists(MaxLayers) }

ThicknessInit ==
    AuditInitWith(ThicknessInputs, {[audit_report |-> FALSE, audit_only |-> TRUE]})
SpecThickness == ThicknessInit /\ [][AuditNext]_vars

\* Runs that audit one armour material, over its shielding coefficients:
\* each of the three is one of the values below or absent.
Absent == -1
Coefficients == {0, 50, 300, 400, 500, 550, 600, 650, 800, 900}

Optional(field, value) == IF value = Absent THEN <<>> ELSE field :> value

ShieldingValues ==
    { Optional("deflection", d) @@ Optional("absorption", a) @@ Optional("dispersion", s) :
        d \in Coefficients \cup {Absent}, a \in Coefficients \cup {Absent},
        s \in Coefficients \cup {Absent} }

ShieldingInputs ==
    { Document([items |-> <<>>], <<>>, << <<1, [name |-> 1, shielding |-> sh]>> >>,
               <<>>, <<>>, <<>>) :
        sh \in ShieldingValues }

ShieldingInit ==
    AuditInitWith(ShieldingInputs, {[audit_report |-> FALSE, audit_only |-> TRUE]})
SpecShielding == ShieldingInit /\ [][AuditNext]_vars

\* Runs that audit one armour piece, over its material (absent, empty,
\* defined, undefined) and its coverage (absent, or a list of up to
\* MaxCoverage entries, each with part tags, with an empty list of part tags
\* or without the field).
MaxCoverage == 3

CoverageValues == {TaggedCoverage, UntaggedCoverage, [layer |-> "plate"]}

RECURSIVE CoverageLists(_)
CoverageLists(n) ==
    IF n = 0 THEN {<<>>}
    ELSE LET rest == CoverageLists(n - 1)
         IN  rest \cup {Append(l, v) : l \in {c \in rest : Len(c) = n - 1},
                                      v \in CoverageValues}

PieceCases ==
    { [id |-> 1, name |-> 1] @@ mat @@ cov :
        mat \in {<<>>} \cup {[material |-> x] : x \in {EmptyStr, 1, UnknownMaterial}},
        cov \in {<<>>} \cup {[coverage |-> l] : l \in CoverageLists(MaxCoverage)} }

PieceInputs ==
    { Document([items |-> <<>>], <<>>, << <<1, CleanMaterial(1)>> >>,
               << <<1, piece>> >>, <<>>, <<>>) :
        piece \in PieceCases }

PieceInit == AuditInitWith(PieceInputs, {[audit_report |-> FALSE, audit_only |-> TRUE]})
SpecPieces == PieceInit /\ [][AuditNext]_vars

\* Runs that audit tissue templates over the material ids of their layers:
\* the first template has no field `layers` or up to MaxMaterialLayers
\* layers, each without material id, with an empty one, or on one of three
\* materials; a second template is absent, on material 2, or without material.
MaxMaterialLayers == 3

MaterialLayerValues ==
    {[thickness_ratio |-> 500], Layer(EmptyStr, 500)}
    \cup {Layer(x, 500) : x \in {1, 2, UnknownMaterial}}

RECURSIVE MaterialLayerLists(_)
MaterialLayerLists(n) ==
    IF n = 0 THEN {<<>>}
    ELSE LET rest == MaterialLayerLists(n - 1)
         IN  rest \cup {Append(l, v) : l \in {c \in rest : Len(c) = n - 1},
                                      v \in MaterialLayerValues}

LayerInputs ==
    { Document([items |-> <<>>], <<>>, <<>>, <<>>, << <<1, first>> >> \o second, <<>>) :
        first \in {[notes |-> 1]}
                  \cup {[layers |-> l] : l \in MaterialLayerLists(MaxMaterialLayers)},
        second \in {<<>>,
                    << <<2, [layers |-> <<Layer(2, 1000)>>]>> >>,
                    << <<2, FailedTemplate>> >>} }

LayerInit == AuditInitWith(LayerInputs, {[audit_report |-> FALSE, audit_only |-> TRUE]})
SpecLayers == LayerInit /\ [][AuditNext]_vars

\* Runs that audit one body plan of up to MaxPlanParts parts, named by their
\* position.  A part is sound, or lacks its tissue template (the field, or
\* its value), or lacks its geometry thickness (the geometry, or the field
\* thickness_cm, or a thickness above zero), or lacks both.
MaxPlanParts == 6

PartValues(i) ==
    { Part(((i - 1) % 2) + 1, 250),
      IF i % 2 = 1 THEN [geometry |-> [thickness_cm |-> 250]]
      ELSE Part(EmptyStr, 125),
      CASE i % 4 = 1 -> [tissue_template |-> UnknownTemplate]
        [] i % 4 = 2 -> [tissue_template |-> 2, geometry |-> <<>>]
        [] i % 4 = 3 -> Part(1, 0)
        [] i % 4 = 0 -> [tissue_template |-> 2, geometry |-> [width_cm |-> 125]],
      IF i % 2 = 1 THEN [parent |-> 1] ELSE Part(EmptyStr, 0) }

RECURSIVE PartLists(_)
PartLists(n) ==
    IF n = 0 THEN {<<>>}
    ELSE LET rest == PartLists(n - 1)
         IN  rest \cup {Append(l, <<n, v>>) : l \in {c \in rest : Len(c) = n - 1},
                                             v \in PartValues(n)}

PlanInputs ==
    { Document([items |-> <<>>], <<>>, <<>>, <<>>, << <<1, CleanTemplate>> >>,
               << <<1, [name |-> 1, parts |-> pp]>> >>) :
        pp \in PartLists(MaxPlanParts) }

PlanInit == AuditInitWith(PlanInputs, {[audit_report |-> FALSE, audit_only |-> TRUE]})
SpecPlans == PlanInit /\ [][AuditNext]_vars

\* Runs that audit one technique, over its axis bias (absent, or a block
\* with any of the three multipliers, or with another field only), its
\* attack mode (absent, "none", "thrust") and its channels (absent, empty,
\* or the three flags with any values).
AxisBlocks ==
    { g @@ e @@ r : g \in {<<>>, [geometry_mult |-> 1250]},
                    e \in {<<>>, [energy_mult |-> 1000]},
                    r \in {<<>>, [rigidity_mult |-> 750]} }
    \cup {[notes |-> 1]}

ChannelBlocks ==
    {<<>>} \cup {[weapon |-> w, off_hand |-> o, footwork |-> f] : w, o, f \in BOOLEAN}

TechniqueCases ==
    { [name |-> 1] @@ axis @@ mode @@ channels :
        axis \in {<<>>} \cup {[axis_bias |-> b] : b \in AxisBlocks},
        mode \in {<<>>, [attack_mode |-> "none"], [attack_mode |-> "thrust"]},
        channels \in {<<>>} \cup {[channels |-> c] : c \in ChannelBlocks} }

TechniqueInputs ==
    { Document([items |-> <<>>], << <<1, tech>> >>, <<>>, <<>>, <<>>, <<>>) :
        tech \in TechniqueCases }

TechniqueInit ==
    AuditInitWith(TechniqueInputs, {[audit_report |-> FALSE, audit_only |-> TRUE]})
SpecTechniques == TechniqueInit /\ [][AuditNext]_vars

\* Runs that audit a tree of weapons whose paths have up to MaxDepth keys.  A value is a scalar, a named record, or a mapping (named or
\* not) with a child under the key "a" and possibly a shallow child under
\* the key "b".
MaxDepth == 3

NamedLeaf == [name |-> 1, weight_kg |-> 1000, length_m |-> 1000]

RECURSIVE WeaponValues(_)
WeaponValues(depth) ==
    IF depth = 0 THEN {ScalarValue, NamedLeaf}
    ELSE LET below == WeaponValues(depth - 1)
             kids == {<<>>}
                     \cup {<< <<"a", v>> >> : v \in below}
                     \cup {<< <<"a", v>>, <<"b", w>> >> :
                              v \in below, w \in {ScalarValue, NamedLeaf, [items |-> <<>>]}}
         IN  {ScalarValue, NamedLeaf}
             \cup {[items |-> k] : k \in kids}
             \cup {NamedLeaf @@ [items |-> k] : k \in kids \ {<<>>}}

\* The root is a mapping; it may hold scalars, as a field `name`.
WeaponTrees ==
    {v \in WeaponValues(MaxDepth) : IsDict(v) /\ "name" \notin DOMAIN v}
    \cup {v \in WeaponValues(2) : IsDict(v) /\ DOMAIN v = {"name", "weight_kg", "length_m", "items"}}

WeaponTreeInputs ==
    { Document(tree, <<>>, <<>>, <<>>, <<>>, <<>>) : tree \in WeaponTrees }

WeaponTreeInit ==
    AuditInitWith(WeaponTreeInputs, {[audit_report |-> FALSE, audit_only |-> TRUE]})
SpecWeapons == WeaponTreeInit /\ [][AuditNext]_vars

-----------------------------------------------------------------------------
(* Properties of the identifier drift check *)

\* s lists exactly the members of S, in ascending order.
IsSortedListOf(s, S) ==
    /\ Range(s) = S
    /\ \A i, j \in 1..Len(s) : i < j => s[i] < s[j]

\* The lists reported on stderr under the heading `heading`.
Reported(heading) == {stderr[i][2] : i \in {j \in 1..Len(stderr) : stderr[j][1] = heading}}

\* The technique ids of the input: the id of each technique mapping (its
\* key when it has none), when not empty.
InputTechniqueIds ==
    LET t == Get(data, "techniques", NoEntries)
    IN  {IF "id" \in DOMAIN t[i][2] THEN t[i][2].id ELSE t[i][1] : i \in 1..Len(t)}
        \ {EmptyStr}

\* The run got past the drift check and wrote the generated text.
Emitted_Ok ==
    /\ exit_code = 0
    /\ stderr = <<>>
    /\ stdout # <<>>
    /\ stdout[1].section = "banner"

\* C5: with canonical id set C and a non-empty oracle set O, the reported
\* missing list is exactly O \ C and the reported unexpected list exactly
\* C \ O, each sorted; if either is non-empty the run ends with exit code 1
\* and nothing was written to the output; if C = O the run is not aborted
\* and the generated text is written.
C5_DriftCheck ==
    /\ exit_code = 1 => stdout = <<>>
    /\ (pc = "exited" /\ existing_ids # {}) =>
         LET C == InputTechniqueIds
             O == existing_ids
         IN  IF C = O THEN Emitted_Ok
             ELSE /\ exit_code = 1
                  /\ stdout = <<>>
                  /\ \A l \in Reported("Missing techniques in CUE:") : IsSortedListOf(l, O \ C)
                  /\ \A l \in Reported("Unexpected techniques in CUE:") : IsSortedListOf(l, C \ O)
                  /\ O \ C # {} <=> Reported("Missing techniques in CUE:") # {}
                  /\ C \ O # {} <=> Reported("Unexpected techniques in CUE:") # {}

\* The run on input ids {1, 2, 3} against the enumeration {1, 2, 4} has
\* ended: 4 is reported missing, 3 unexpected.
C5_Witness ==
    /\ pc = "exited"
    /\ InputTechniqueIds = {1, 2, 3}
    /\ existing_ids = {1, 2, 4}
    /\ stderr = << <<"Missing techniques in CUE:", <<4>> >>,
                   <<"Unexpected techniques in CUE:", <<3>> >> >>

\* C6: when the artifact is absent the drift check is skipped: whatever the
\* technique ids of the input, no drift error is raised and the generated
\* text is written.
C6_AbsentArtifactSkips ==
    ~artifact.exists =>
        /\ exit_code # 1
        /\ stderr = <<>>
        /\ pc = "exited" => Emitted_Ok

\* A finished run without artifact on an input that has technique ids.
C6_Witness ==
    /\ pc = "exited"
    /\ ~artifact.exists
    /\ InputTechniqueIds # {}
    /\ \E i \in 1..Len(stdout) : stdout[i].section = "GeneratedTechniqueID"

\* C7 (as claimed): an input with no technique ids never triggers a drift
\* abort, whatever the artifact contains.
C7_NoIdsNoAbort ==
    (pc = "exited" /\ InputTechniqueIds = {}) => Emitted_Ok

-----------------------------------------------------------------------------
(* Properties of the audit *)

\* run_audit has returned.
AfterRunAudit == pc \in {"to_markdown", "write_report", "exit_signal", "exited"}

EntriesOf(dataset) ==
    {i \in 1..Len(report.entries) : report.entries[i].dataset = dataset}

SomeEntryHasErrors == \E i \in 1..Len(report.entries) : report.entries[i].errors # <<>>
SomeEntryHasWarnings == \E i \in 1..Len(report.entries) : report.entries[i].warnings # <<>>
SomeFatal == SomeEntryHasErrors \/ report.cross_ref_errors # <<>>

\* C1: after run_audit the status of the report is FAILED iff some entry
\* has an error or a cross-reference error exists, PASSED with warnings iff
\* it is not FAILED and some entry has a warning, and PASSED otherwise.
C1_Status ==
    markdown.rendered =>
        /\ markdown.status = "FAILED" <=> SomeFatal
        /\ markdown.status = "PASSED with warnings" <=> (~SomeFatal /\ SomeEntryHasWarnings)
        /\ markdown.status = "PASSED" <=> (~SomeFatal /\ ~SomeEntryHasWarnings)

\* A rendered report that is FAILED by a cross-reference error alone, with
\* entries that carry warnings and none that carries an error.
C1_Witness ==
    /\ markdown.rendered
    /\ markdown.status = "FAILED"
    /\ ~SomeEntryHasErrors
    /\ SomeEntryHasWarnings
    /\ Len(report.entries) >= 4

\* Number of cross-reference errors that name `owner` and `target` under
\* the heading `text`.
CrossRefCount(text, owner, target) ==
    Cardinality({i \in 1..Len(report.cross_ref_errors) :
                    report.cross_ref_errors[i] = <<text, owner, target>>})

\* Number of armour piece entries with this id and material id.
PieceEntryCount(id, mat) ==
    Cardinality({i \in EntriesOf("armour_pieces") :
                    /\ report.entries[i].id = id
                    /\ report.entries[i].fields.material_id = mat})

PieceErrorText == "Armour piece references unknown material"
TemplateErrorText == "Body plan references unknown tissue template"

ReportFailed == markdown.rendered => markdown.status = "FAILED"

\* C8 (as claimed): after run_audit every armour piece entry whose material
\* id is not in the armour material id set has its one cross-reference
\* error naming the piece and the material, and the report is FAILED; a
\* piece whose material id is in the set has none.
C8_EveryNonMember ==
    AfterRunAudit =>
        \A i \in EntriesOf("armour_pieces") :
            LET e == report.entries[i]
                mat == e.fields.material_id
            IN  IF mat \notin report.armour_material_ids
                THEN /\ CrossRefCount(PieceErrorText, e.id, mat) = PieceEntryCount(e.id, mat)
                     /\ ReportFailed
                ELSE CrossRefCount(PieceErrorText, e.id, mat) = 0

\* C8 (amended): after run_audit every armour piece entry whose material id
\* is not empty and is not in the armour material id set has its one
\* cross-reference error naming the piece and the material, and the report
\* is FAILED; a piece whose material id is empty or in the set has none,
\* and there are no other armour piece cross-reference errors.
C8_PieceCrossRef ==
    AfterRunAudit =>
        /\ \A i \in EntriesOf("armour_pieces") :
            LET e == report.entries[i]
                mat == e.fields.material_id
            IN  IF mat # EmptyStr /\ mat \notin report.armour_material_ids
                THEN /\ CrossRefCount(PieceErrorText, e.id, mat) = PieceEntryCount(e.id, mat)
                     /\ ReportFailed
                ELSE CrossRefCount(PieceErrorText, e.id, mat) = 0
        /\ Cardinality({i \in 1..Len(report.cross_ref_errors) :
                           report.cross_ref_errors[i][1] = PieceErrorText})
           = Cardinality({i \in EntriesOf("armour_pieces") :
                           /\ report.entries[i].fields.material_id # EmptyStr
                           /\ report.entries[i].fields.material_id
                                \notin report.armour_material_ids})

\* The run on materials 1 and 2 with a piece on the undefined material and
\* a piece on material 1 has ended: one cross-reference error, exit code 1.
C8_Witness ==
    /\ pc = "exited"
    /\ exit_code = 1
    /\ report.armour_material_ids = {1, 2}
    /\ \E i, j \in EntriesOf("armour_pieces") :
         /\ report.entries[i].fields.material_id = 1
         /\ report.entries[j].fields.material_id = UnknownMaterial
         /\ report.cross_ref_errors =
              << <<PieceErrorText, report.entries[j].id, UnknownMaterial>> >>

\* The parts of the body plan with key plan_id in the input.
InputPlanParts(plan_id) ==
    LET plans == Get(data, "body_plans", NoEntries)
        i == CHOOSE j \in 1..Len(plans) : plans[j][1] = plan_id
    IN  Get(plans[i][2], "parts", <<>>)

\* The distinct tissue template ids the parts of a plan reference.
InputPlanTemplates(plan_id) ==
    LET pp == InputPlanParts(plan_id)
    IN  {pp[i][2].tissue_template :
            i \in {j \in 1..Len(pp) : "tissue_template" \in DOMAIN pp[j][2]}} \ {EmptyStr}

\* C9: after run_audit, for every body plan entry and every distinct tissue
\* template id its parts reference there is exactly one cross-reference
\* error if the id is not in the tissue template id set and none if it is;
\* the number of cross-reference errors of a plan is the number of its
\* distinct unresolved template ids, however many parts use them.
C9_PlanCrossRef ==
    AfterRunAudit =>
        \A i \in EntriesOf("body_plans") :
            LET plan_id == report.entries[i].id
                refs == InputPlanTemplates(plan_id)
                unresolved == refs \ report.tissue_template_ids
            IN  /\ \A t \in refs :
                     CrossRefCount(TemplateErrorText, plan_id, t)
                       = (IF t \in report.tissue_template_ids THEN 0 ELSE 1)
                /\ Cardinality({k \in 1..Len(report.cross_ref_errors) :
                                   /\ report.cross_ref_errors[k][1] = TemplateErrorText
                                   /\ report.cross_ref_errors[k][2] = plan_id})
                   = Cardinality(unresolved)

\* A plan of three parts, two of them on the same undefined template and
\* one on another undefined template, has exactly two cross-reference errors.
C9_Witness ==
    /\ AfterRunAudit
    /\ \E i \in EntriesOf("body_plans") :
         LET plan_id == report.entries[i].id IN
         /\ Len(InputPlanParts(plan_id)) = 3
         /\ Cardinality(InputPlanTemplates(plan_id)) = 2
         /\ InputPlanTemplates(plan_id) \cap report.tissue_template_ids = {}
         /\ Cardinality({k \in 1..Len(report.cross_ref_errors) :
                            report.cross_ref_errors[k][2] = plan_id}) = 2

\* The markdown of the report has been written to its destination.
ReportWritten ==
    /\ markdown.rendered
    /\ IF args.audit_report THEN report_file = <<markdown>> /\ stdout = <<>>
       ELSE stdout = <<markdown>> /\ report_file = <<>>

\* C10: in audit mode the process ends with a failure exit code iff the
\* report has a per-entry error or a cross-reference error; the report has
\* been written before, which does not turn the failure into a success;
\* with only warnings or no issue the process ends successfully.
C10_ExitSignal ==
    /\ exit_code # NotExited => pc = "exited" /\ ReportWritten
    /\ pc = "exited" =>
         /\ exit_code = 1 <=> SomeFatal
         /\ exit_code = 0 <=> ~SomeFatal

\* The process has ended with exit code 1 after it wrote the report to the
\* file named by --audit-report.
C10_Witness ==
    /\ pc = "exited"
    /\ exit_code = 1
    /\ args.audit_report
    /\ report_file = <<markdown>>
    /\ markdown.status = "FAILED"

\* The entries of one dataset, in report order.
EntriesSeq(dataset) == SelectSeq(report.entries, LAMBDA e : e.dataset = dataset)

\* The flattened records of the input, per dataset.
WeaponRecords == flatten_weapons(Get(data, "weapons", <<>>))
TechniqueRecords == flatten_techniques(Get(data, "techniques", NoEntries))
MaterialRecords == flatten_armour_materials(data)
PieceRecords == flatten_armour_pieces(data)
TemplateRecords == Get(data, "tissue_templates", NoEntries)
PlanRecords == Get(data, "body_plans", NoEntries)

\* The i-th entry of a dataset is the entry of its i-th flattened record.
OneEntryPerRecord(dataset, ids) ==
    /\ Len(EntriesSeq(dataset)) = Len(ids)
    /\ \A i \in 1..Len(ids) : EntriesSeq(dataset)[i].id = ids[i]

\* C11: every auditor and the cross-reference pass run whatever the other
\* datasets hold: after run_audit the entries of a dataset are those its
\* auditor makes of that dataset alone, every flattened record of every
\* dataset has exactly one entry, and the cross-reference errors are those
\* of the pass over the complete list of entries.
C11_FullyAudited ==
    AfterRunAudit =>
        /\ EntriesSeq("weapons") = audit_weapons(WeaponRecords, EmptyReport).entries
        /\ EntriesSeq("techniques") = audit_techniques(TechniqueRecords, EmptyReport).entries
        /\ EntriesSeq("armour_materials")
             = audit_armour_materials(MaterialRecords, EmptyReport).entries
        /\ EntriesSeq("armour_pieces") = audit_armour_pieces(PieceRecords, EmptyReport).entries
        /\ EntriesSeq("tissue_templates")
             = audit_tissue_templates(TemplateRecords, EmptyReport).entries
        /\ \E order \in Orders(TemplateIds) :
             EntriesSeq("body_plans") = audit_body_plans(PlanRecords, EmptyReport, order).entries
        /\ OneEntryPerRecord("weapons", [i \in 1..Len(WeaponRecords) |-> WeaponRecords[i][1]])
        /\ OneEntryPerRecord("techniques",
                             [i \in 1..Len(TechniqueRecords) |-> TechniqueRecords[i].id])
        /\ OneEntryPerRecord("armour_materials",
                             [i \in 1..Len(MaterialRecords) |-> MaterialRecords[i][1]])
        /\ OneEntryPerRecord("armour_pieces",
                             [i \in 1..Len(PieceRecords) |-> PieceRecords[i][1]])
        /\ OneEntryPerRecord("tissue_templates",
                             [i \in 1..Len(TemplateRecords) |-> TemplateRecords[i][1]])
        /\ OneEntryPerRecord("body_plans", [i \in 1..Len(PlanRecords) |-> PlanRecords[i][1]])
        /\ Len(report.entries)
             = Len(WeaponRecords) + Len(TechniqueRecords) + Len(MaterialRecords)
               + Len(PieceRecords) + Len(TemplateRecords) + Len(PlanRecords)
        /\ report.cross_ref_errors
             = validate_cross_references([report EXCEPT !.cross_ref_errors = <<>>]).cross_ref_errors

\* run_audit has returned a report in which an armour piece carries an
\* error and the later datasets, tissue templates and body plans, have all
\* their entries, one of them unresolved by the cross-reference pass.
C11_Witness ==
    /\ AfterRunAudit
    /\ \E i \in EntriesOf("armour_pieces") : report.entries[i].errors # <<>>
    /\ Len(EntriesSeq("weapons")) = 2
    /\ Len(EntriesSeq("tissue_templates")) = 2
    /\ Len(EntriesSeq("body_plans")) = 3
    /\ report.cross_ref_errors # <<>>

\* The ids of the entries of one dataset in a report.
EntryIds(rep, dataset) ==
    {rep.entries[i].id : i \in {j \in 1..Len(rep.entries) : rep.entries[j].dataset = dataset}}

\* Each of the six per-dataset id sets of a report holds exactly the ids of
\* the entries of its dataset.
IdSetsMatchEntries(rep) ==
    /\ rep.weapon_ids = EntryIds(rep, "weapons")
    /\ rep.technique_ids = EntryIds(rep, "techniques")
    /\ rep.armour_material_ids = EntryIds(rep, "armour_materials")
    /\ rep.armour_piece_ids = EntryIds(rep, "armour_pieces")
    /\ rep.tissue_template_ids = EntryIds(rep, "tissue_templates")
    /\ rep.body_plan_ids = EntryIds(rep, "body_plans")

Prefix(s, k) == SubSeq(s, 1, k)

C14_ErrorsAbortWithoutOutput ==
    (pc = "exited" /\ SomeEntryHasErrors) =>
        /\ exit_code = 1
        /\ stdout = <<>>
        /\ report_file = <<>>

\* C14 (amended): per-entry validation errors make the audit fail without
\* suppressing its output: whenever some entry has at least one error, the
\* run ends with a failure exit code only after the complete report, with
\* status FAILED and the entries that carry the errors, has been written to
\* the report file or to standard output.
C14_ErrorsFailAfterReport ==
    (pc = "exited" /\ SomeEntryHasErrors) =>
        /\ exit_code = 1
        /\ markdown = to_markdown(report)
        /\ markdown.status = "FAILED"
        /\ markdown.total_errors >= 1
        /\ IF args.audit_report THEN report_file = <<markdown>> ELSE stdout = <<markdown>>

\* An audit-only run has ended with exit code 1 on an input whose only
\* faults are per-entry errors, and its report is on standard output.
C14_Witness ==
    /\ pc = "exited"
    /\ exit_code = 1
    /\ SomeEntryHasErrors
    /\ report.cross_ref_errors = <<>>
    /\ ~args.audit_report
    /\ stdout = <<markdown>>
    /\ markdown.status = "FAILED"

\* The number of warnings of an entry with the text `text`.
WarningCount(entry, text) ==
    Cardinality({k \in 1..Len(entry.warnings) : entry.warnings[k][1] = text})

\* The value of the pair with key `key` of a data-keyed mapping.
ValueOf(pairs, key) ==
    pairs[CHOOSE i \in 1..Len(pairs) : pairs[i][1] = key][2]

\* The sum of the thickness ratios of the layers, as decimals (thousandths).
RECURSIVE DecimalSum(_)
DecimalSum(layers) ==
    IF layers = <<>> THEN 0
    ELSE Get(Head(layers), "thickness_ratio", 0) + DecimalSum(Tail(layers))

ThicknessText == "Thickness ratios do not sum to ~1.0"
ShieldingText == "Shielding coefficients sum above 1.5"

\* C16 (as claimed): a tissue template entry has exactly one thickness
\* warning when the sum of the thickness ratios of its layers differs from
\* 1.0 by more than 0.05, and none otherwise: none for sums of 1.00, 1.05
\* and 0.95, one for sums of 1.10, 0.90, 1.051 and 0.949.
C16_ThicknessRule ==
    AfterRunAudit =>
        \A i \in EntriesOf("tissue_templates") :
            LET layers == Get(ValueOf(TemplateRecords, report.entries[i].id), "layers", <<>>)
                total == DecimalSum(layers)
                off == IF total >= 1000 THEN total - 1000 ELSE 1000 - total
            IN  WarningCount(report.entries[i], ThicknessText) = (IF off > 50 THEN 1 ELSE 0)

\* C17 (as claimed): an armour material entry has exactly one over-shielding
\* warning when deflection + absorption + dispersion is greater than 1.5,
\* and none when the sum is 1.5 or less; missing coefficients count as 0.
C17_ShieldingRule ==
    AfterRunAudit =>
        \A i \in EntriesOf("armour_materials") :
            LET sh == Get(ValueOf(MaterialRecords, report.entries[i].id), "shielding", <<>>)
                total == Get(sh, "deflection", 0) + Get(sh, "absorption", 0)
                         + Get(sh, "dispersion", 0)
            IN  WarningCount(report.entries[i], ShieldingText)
                  = (IF total > 1500 THEN 1 ELSE 0)

-----------------------------------------------------------------------------
(* Properties of the generated tables *)

TableNames ==
    {"weapons", "techniques", "tissue_templates", "body_plans", "species",
     "armour_materials", "armour_pieces", "combat_tests"}

\* The records the input yields for a dataset.
RecordsFor(dataset) ==
    CASE dataset = "weapons" -> WeaponRecords
      [] dataset = "techniques" -> TechniqueRecords
      [] dataset = "tissue_templates" -> TemplateRecords
      [] dataset = "body_plans" -> PlanRecords
      [] dataset = "species" -> Get(data, "species", NoEntries)
      [] dataset = "armour_materials" -> MaterialRecords
      [] dataset = "armour_pieces" -> PieceRecords
      [] dataset = "combat_tests" -> flatten_combat_tests(data)

\* The tables of the text written to standard output.
TablesWritten == {stdout[i].section : i \in 1..Len(stdout)} \cap TableNames

OnlySpecies ==
    \A ds \in TableNames : RecordsFor(ds) # <<>> <=> ds = "species"

\* C13 (as claimed): the generated text has a table for a dataset iff the
\* dataset yields at least one record from the input, and an input that
\* holds only a species dataset produces a text whose only table is the
\* species table.
C13_TablesIffRecords ==
    /\ exit_code = 0 =>
         \A ds \in TableNames : ds \in TablesWritten <=> RecordsFor(ds) # <<>>
    /\ (pc = "exited" /\ OnlySpecies) =>
         /\ exit_code = 0
         /\ stdout = Section("banner") \o Section("species")

\* The part of C13 that holds: whenever text is written, its tables are
\* those of the datasets that yield a record.
TablesMatchRecords ==
    exit_code = 0 =>
        \A ds \in TableNames : ds \in TablesWritten <=> RecordsFor(ds) # <<>>

\* The report an audit of the input of this run makes.
AuditOfInput == run_audit(data, CHOOSE order \in Orders(TemplateIds) : TRUE)

\* C15: in generation mode nothing is emitted before the drift check has
\* been evaluated, and when the check passes (the ids of the input are the
\* committed ids) or is skipped (no committed ids) the run ends
\* successfully with the table of every dataset that yields a record,
\* whatever errors an audit of the same input reports; only a drift
\* mismatch leaves the output empty.
C15_OnlyDriftBlocks ==
    /\ pc \in {"main", "gen_load", "gen_check"} => (zig_code = <<>> /\ stdout = <<>>)
    /\ pc = "exited" =>
         IF existing_ids = {} \/ existing_ids = InputTechniqueIds
         THEN /\ Emitted_Ok
              /\ \A ds \in TableNames : RecordsFor(ds) # <<>> => ds \in TablesWritten
         ELSE exit_code = 1 /\ stdout = <<>>

\* A generation run has written the armour piece, tissue template and body
\* plan tables of an input on which an audit reports per-entry and
\* cross-reference errors.
C15_Witness ==
    /\ pc = "exited"
    /\ exit_code = 0
    /\ {"armour_pieces", "tissue_templates", "body_plans"} \subseteq TablesWritten
    /\ \E i \in 1..Len(AuditOfInput.entries) : AuditOfInput.entries[i].errors # <<>>
    /\ AuditOfInput.cross_ref_errors # <<>>

-----------------------------------------------------------------------------
(* Properties of topological_sort_parts *)

\* Position of a placed name in the output.
PosOf(s, x) == CHOOSE i \in 1..Len(s) : s[i] = x

NoDuplicates(s) == \A i, j \in 1..Len(s) : s[i] = s[j] => i = j

\* Following parent links from name for at most fuel steps ends at a part
\* without parent, or at a parent name that is no part of the map.
RECURSIVE Resolves(_, _, _)
Resolves(p, name, fuel) ==
    \/ p[name] = None
    \/ p[name] \notin DOMAIN p
    \/ fuel > 0 /\ Resolves(p, p[name], fuel - 1)

\* The parent relation has no cycle (a self-parenting part is a cycle).
Acyclic(p) == \A name \in DOMAIN p : Resolves(p, name, Cardinality(DOMAIN p))

\* Every named parent is itself a part of the same map.
SelfContained(p) == \A name \in DOMAIN p : p[name] = None \/ p[name] \in DOMAIN p

\* C2: for every part map whose parent relation is acyclic and whose named
\* parents all are parts of the map, every part is placed at a strictly
\* later position of the output than its parent.
C2_ParentBeforeChild ==
    (sort_pc = "done" /\ Acyclic(parts) /\ SelfContained(parts)) =>
        \A name \in DOMAIN parts :
            parts[name] # None =>
                /\ name \in Range(result)
                /\ parts[name] \in Range(result)
                /\ PosOf(result, parts[name]) < PosOf(result, name)

\* A finished run on an acyclic self-contained map with a chain of three
\* parts in which each parent is alphabetically after its child.
C2_Witness ==
    /\ sort_pc = "done"
    /\ Acyclic(parts) /\ SelfContained(parts)
    /\ \E a, b, c \in DOMAIN parts :
         a < b /\ b < c /\ parts[a] = b /\ parts[b] = c /\ parts[c] = None

\* C3: for every part map (cycles, self-parenting parts and dangling
\* parents included) the output is a permutation of the input part names:
\* placed and unplaced names partition the input at every point, no name is
\* placed twice, and on return every input name is placed and no other.
C3_Permutation ==
    /\ NoDuplicates(result)
    /\ Range(result) \cap remaining = {}
    /\ Range(result) \cup remaining = DOMAIN parts
    /\ sort_pc = "done" =>
         /\ Range(result) = DOMAIN parts
         /\ Len(result) = Cardinality(DOMAIN parts)

\* A finished run on a map with a self-parenting part, a two-part cycle and
\* a part whose parent names no part of the map.
C3_Witness ==
    /\ sort_pc = "done"
    /\ \E a, b, c, d \in DOMAIN parts :
         /\ Cardinality({a, b, c, d}) = 4
         /\ parts[a] = a
         /\ parts[b] = c /\ parts[c] = b
         /\ parts[d] \notin DOMAIN parts /\ parts[d] # None

\* C4: the placement loop terminates: every round removes at least one part
\* from the remaining set, so after any round the rounds executed plus the
\* parts remaining do not exceed the number of parts (hence never more
\* rounds than parts).
C4_Terminates ==
    [][rounds' = rounds + 1 =>
         /\ Cardinality(remaining') < Cardinality(remaining)
         /\ rounds' + Cardinality(remaining') <= Cardinality(DOMAIN parts)]_vars

\* A finished run that went through the deadlock fallback after at least
\* one ordinary round.
C4_Witness ==
    /\ sort_pc = "done"
    /\ fallbacks >= 1
    /\ rounds >= 2

\* The part's chain of parents ends at a part without parent or at a
\* parent name outside the map.
Resolvable(name) == Resolves(parts, name, Cardinality(DOMAIN parts))

\* The part has no parent, or a parent that names no part of the map.
RootLike(name) == parts[name] = None \/ parts[name] \notin DOMAIN parts

\* The names a round has appended to the output.
Placed == SubSeq(result', Len(result) + 1, Len(result'))

Ascending(s) == \A i, j \in 1..Len(s) : i < j => s[i] < s[j]

\* C18: for every part map, a part whose chain of parents ends at a part
\* without parent or outside the map is placed strictly after its parent
\* when that parent is a part of the map; parts without parent and parts
\* whose parent names no part of the map are all placed by the first round;
\* and the deadlock fallback fires only in a round in which no remaining
\* part has such a chain (each lies on a parent cycle or descends from one).
C18_ResolvableSubset ==
    /\ [](\A name \in DOMAIN parts :
            /\ (rounds >= 1 /\ RootLike(name)) => name \notin remaining
            /\ (Resolvable(name) /\ ~RootLike(name) /\ name \in Range(result)) =>
                 /\ parts[name] \in Range(result)
                 /\ PosOf(result, parts[name]) < PosOf(result, name))
    /\ [][fallbacks' = fallbacks + 1 => \A name \in remaining : ~Resolvable(name)]_vars

\* A finished run on a map with a two-part cycle, a part whose parent is
\* outside the map, and a child of that part with a smaller name.
C18_Witness ==
    /\ sort_pc = "done"
    /\ fallbacks = 1
    /\ \E a, b, c, d \in DOMAIN parts :
         /\ parts[a] = b /\ parts[b] = a /\ a # b
         /\ parts[c] = OutsideName
         /\ parts[d] = c /\ d < c
         /\ PosOf(result, c) < PosOf(result, d)

\* The output of the run that iterates the remaining set in ascending order.
RECURSIVE CanonicalSort(_, _, _)
CanonicalSort(p, rem, acc) ==
    IF rem = {} THEN acc
    ELSE LET placed == Emitted(p, rem, SortedSet(rem))
         IN  CanonicalSort(p, Discard(rem, placed), acc \o placed)

\* C19: the output is a function of the part map alone: whatever the order
\* in which the remaining set is iterated in each round, the finished
\* output is the same sequence; and the parts a round places appear in
\* ascending alphabetical order.
C19_Deterministic ==
    /\ [](sort_pc = "done" => result = CanonicalSort(parts, DOMAIN parts, <<>>))
    /\ [][rounds' = rounds + 1 => (result' = result \o Placed /\ Ascending(Placed))]_vars

\* A finished run of two rounds that placed three parts in its first round.
C19_Witness ==
    /\ sort_pc = "done"
    /\ rounds = 2
    /\ Cardinality({name \in DOMAIN parts : RootLike(name)}) = 3
    /\ Cardinality(DOMAIN parts) = 4
    /\ fallbacks = 0

\* A remaining part is ready: it has no parent, or its parent is not in
\* the remaining set.
GenuinelyReady(name) == parts[name] = None \/ parts[name] \notin remaining

\* C20: a round in which no remaining part is ready places the entire
\* remaining set, in alphabetical order; so the fallback happens at most
\* once per call and in the last round, and every other round places
\* exactly the parts that are ready.
C20_Fallback ==
    /\ [](fallbacks <= 1 /\ (fallbacks = 1 => remaining = {}))
    /\ [][rounds' = rounds + 1 =>
            IF \A name \in remaining : ~GenuinelyReady(name)
            THEN /\ Placed = SortedSet(remaining)
                 /\ remaining' = {}
                 /\ fallbacks' = fallbacks + 1
            ELSE /\ Range(Placed) = {name \in remaining : GenuinelyReady(name)}
                 /\ fallbacks' = fallbacks]_vars

\* A finished run whose first round placed a ready part and whose second
\* and last round was the fallback on a cycle of three parts.
C20_Witness ==
    /\ sort_pc = "done"
    /\ rounds = 2
    /\ fallbacks = 1
    /\ \E a, b, c \in DOMAIN parts :
         /\ parts[a] = b /\ parts[b] = c /\ parts[c] = a
         /\ Cardinality({a, b, c}) = 3
         /\ Cardinality(DOMAIN parts) = 4

-----------------------------------------------------------------------------
(* Properties of the order of the audit *)

\* The first element of each pair of a list of <<key, value>> pairs.
KeysOf(pairs) == {pairs[i][1] : i \in 1..Len(pairs)}

\* One auditor of run_audit applied to its dataset of the document d.
AuditDataset(dataset, d, rep, order) ==
    CASE dataset = "weapons" ->
           audit_weapons(flatten_weapons(Get(d, "weapons", <<>>)), rep)
      [] dataset = "techniques" ->
           audit_techniques(flatten_techniques(Get(d, "techniques", NoEntries)), rep)
      [] dataset = "armour_materials" ->
           audit_armour_materials(flatten_armour_materials(d), rep)
      [] dataset = "armour_pieces" ->
           audit_armour_pieces(flatten_armour_pieces(d), rep)
      [] dataset = "tissue_templates" ->
           audit_tissue_templates(Get(d, "tissue_templates", NoEntries), rep)
      [] dataset = "body_plans" ->
           audit_body_plans(Get(d, "body_plans", NoEntries), rep, order)

\* The auditors applied in the order `datasets`, then the cross-reference pass.
RECURSIVE AuditIn(_, _, _, _)
AuditIn(datasets, d, rep, order) ==
    IF datasets = <<>> THEN validate_cross_references(rep)
    ELSE AuditIn(Tail(datasets), d, AuditDataset(Head(datasets), d, rep, order), order)

\* Orders in which the six datasets can be audited: every order of the four
\* datasets the cross-reference pass reads, with the weapons and techniques
\* before them or after them.
AuditOrders ==
    LET four == Orders({"armour_materials", "armour_pieces", "tissue_templates",
                        "body_plans"})
    IN  {<<"weapons", "techniques">> \o s : s \in four}
        \cup {s \o <<"techniques", "weapons">> : s \in four}

BeforeCrossRef ==
    pc \in {"main", "audit_weapons", "audit_techniques", "audit_armour_materials",
            "audit_armour_pieces", "audit_tissue_templates", "audit_body_plans",
            "validate_cross_references"}

\* C21: no cross-reference error exists before the six auditors have
\* completed; when the cross-reference pass starts, the material and tissue
\* template id sets hold every id the input defines (every material record
\* and every tissue template key); so after run_audit no cross-reference
\* error names a material or a tissue template the input defines, and the
\* cross-reference errors are the same whatever the order in which the six
\* datasets are audited before the pass.
C21_CrossRefAfterAuditors ==
    /\ BeforeCrossRef => report.cross_ref_errors = <<>>
    /\ pc = "validate_cross_references" =>
         /\ report.armour_material_ids = KeysOf(MaterialRecords)
         /\ report.tissue_template_ids = KeysOf(TemplateRecords)
         /\ report.armour_piece_ids = KeysOf(PieceRecords)
         /\ report.body_plan_ids = KeysOf(PlanRecords)
         /\ report.weapon_ids = KeysOf(WeaponRecords)
         /\ report.technique_ids = {TechniqueRecords[i].id : i \in 1..Len(TechniqueRecords)}
    /\ AfterRunAudit =>
         /\ \A i \in 1..Len(report.cross_ref_errors) :
              LET e == report.cross_ref_errors[i]
              IN  /\ e[1] = PieceErrorText => e[3] \notin KeysOf(MaterialRecords)
                  /\ e[1] = TemplateErrorText => e[3] \notin KeysOf(TemplateRecords)
         /\ pc = "to_markdown" => \A datasets \in AuditOrders :
              LET other == AuditIn(datasets, data, EmptyReport, <<1, 2, 3>>).cross_ref_errors
              IN  /\ Range(other) = Range(report.cross_ref_errors)
                  /\ Len(other) = Len(report.cross_ref_errors)

\* run_audit has returned on an input in which a piece uses a defined
\* material, a body plan uses a defined tissue template, and another
\* reference is unresolved.
C21_Witness ==
    /\ AfterRunAudit
    /\ \E i \in EntriesOf("armour_pieces") :
         report.entries[i].fields.material_id \in KeysOf(MaterialRecords)
    /\ \E i \in EntriesOf("body_plans") :
         InputPlanTemplates(report.entries[i].id) \cap KeysOf(TemplateRecords) # {}
    /\ report.cross_ref_errors # <<>>

-----------------------------------------------------------------------------
(* Properties of the per-entry rules *)

\* Number of the members of a list of messages whose text is `text`.
MessageCount(msgs, text) == Cardinality({i \in 1..Len(msgs) : msgs[i][1] = text})

\* The audit of a dataset has recorded its entries.
Audited(dataset) ==
    LET after == [armour_materials |-> {"audit_armour_pieces", "audit_tissue_templates",
                                        "audit_body_plans", "validate_cross_references"},
                  armour_pieces |-> {"audit_tissue_templates", "audit_body_plans",
                                     "validate_cross_references"},
                  body_plans |-> {"validate_cross_references"},
                  techniques |-> {"audit_armour_materials", "audit_armour_pieces",
                                  "audit_tissue_templates", "audit_body_plans",
                                  "validate_cross_references"},
                  tissue_templates |-> {"audit_body_plans", "validate_cross_references"},
                  weapons |-> {"audit_techniques", "audit_armour_materials",
                               "audit_armour_pieces", "audit_tissue_templates",
                               "audit_body_plans", "validate_cross_references"}]
    IN  AfterRunAudit \/ pc \in after[dataset]

\* C22: the entry of an armour piece has the error "No material specified"
\* once iff its material is missing or empty, the error "No coverage entries
\* defined" once iff its coverage is missing or empty, and no other error;
\* when the coverage is not empty its warnings are one "no part_tags"
\* warning for each coverage entry whose part tags are missing or empty,
\* naming the position of that entry, and no other warning; when the
\* coverage is missing or empty it has no warning.
C22_PieceRules ==
    Audited("armour_pieces") =>
        /\ Len(EntriesSeq("armour_pieces")) = Len(PieceRecords)
        /\ \A k \in 1..Len(PieceRecords) :
             LET piece == PieceRecords[k][2]
                 entry == EntriesSeq("armour_pieces")[k]
                 no_material == "material" \notin DOMAIN piece \/ piece.material = EmptyStr
                 no_coverage == "coverage" \notin DOMAIN piece \/ Len(piece.coverage) = 0
                 untagged == IF no_coverage THEN {}
                             ELSE {i \in 0..(Len(piece.coverage) - 1) :
                                     \/ "part_tags" \notin DOMAIN piece.coverage[i + 1]
                                     \/ Len(piece.coverage[i + 1].part_tags) = 0}
             IN  /\ MessageCount(entry.errors, "No material specified")
                      = (IF no_material THEN 1 ELSE 0)
                 /\ MessageCount(entry.errors, "No coverage entries defined")
                      = (IF no_coverage THEN 1 ELSE 0)
                 /\ Len(entry.errors)
                      = (IF no_material THEN 1 ELSE 0) + (IF no_coverage THEN 1 ELSE 0)
                 /\ Range(entry.warnings)
                      = {<<"Coverage entry has no part_tags", i>> : i \in untagged}
                 /\ Len(entry.warnings) = Cardinality(untagged)

\* The entry of a piece without material whose coverage has three entries,
\* the first and the last without part tags: one error and two warnings.
C22_Witness ==
    /\ Audited("armour_pieces")
    /\ \E k \in 1..Len(PieceRecords) :
         LET piece == PieceRecords[k][2]
             entry == EntriesSeq("armour_pieces")[k]
         IN  /\ "material" \notin DOMAIN piece
             /\ "coverage" \in DOMAIN piece
             /\ Len(piece.coverage) = 3
             /\ "part_tags" \notin DOMAIN piece.coverage[1]
             /\ piece.coverage[2] = TaggedCoverage
             /\ piece.coverage[3] = UntaggedCoverage
             /\ Len(entry.errors) = 1
             /\ Len(entry.warnings) = 2

\* The layers of a tissue template of the input.
InputLayers(tpl) == IF "layers" \in DOMAIN tpl THEN tpl.layers ELSE <<>>

\* The positions of the layers of a template whose material id is missing
\* or empty.
LayersWithoutMaterial(tpl) ==
    {i \in 1..Len(InputLayers(tpl)) :
        \/ "material_id" \notin DOMAIN InputLayers(tpl)[i]
        \/ InputLayers(tpl)[i].material_id = EmptyStr}

\* C23: the number of errors of the entry of a tissue template is 1 if the
\* template has no layer and 0 otherwise, plus the number of its layers
\* whose material id is missing or empty; once the templates are audited the
\* tissue material id set of the report holds exactly the non-empty
\* material ids of the layers of all templates.
C23_TemplateErrors ==
    Audited("tissue_templates") =>
        /\ Len(EntriesSeq("tissue_templates")) = Len(TemplateRecords)
        /\ \A k \in 1..Len(TemplateRecords) :
             LET tpl == TemplateRecords[k][2]
                 entry == EntriesSeq("tissue_templates")[k]
             IN  /\ Len(entry.errors)
                      = (IF Len(InputLayers(tpl)) = 0 THEN 1 ELSE 0)
                        + Cardinality(LayersWithoutMaterial(tpl))
                 /\ MessageCount(entry.errors, "No layers defined")
                      = (IF Len(InputLayers(tpl)) = 0 THEN 1 ELSE 0)
                 /\ MessageCount(entry.errors, "Layer has no material_id")
                      = Cardinality(LayersWithoutMaterial(tpl))
        /\ report.tissue_material_ids
             = UNION { {InputLayers(TemplateRecords[k][2])[i].material_id :
                           i \in (1..Len(InputLayers(TemplateRecords[k][2])))
                                 \ LayersWithoutMaterial(TemplateRecords[k][2])} :
                       k \in 1..Len(TemplateRecords) }

\* A template of three layers, one without the field material_id, one with
\* an empty material id and one on the undefined material, next to a
\* template on material 2: two errors, and both materials are collected.
C23_Witness ==
    /\ Audited("tissue_templates")
    /\ Len(TemplateRecords) = 2
    /\ LayersWithoutMaterial(TemplateRecords[1][2]) = {1, 2}
    /\ Len(InputLayers(TemplateRecords[1][2])) = 3
    /\ "material_id" \notin DOMAIN InputLayers(TemplateRecords[1][2])[1]
    /\ Len(EntriesSeq("tissue_templates")[1].errors) = 2
    /\ report.tissue_material_ids = {2, UnknownMaterial}

\* The positions of the parts of a plan without tissue template reference,
\* and of those with zero or missing geometry thickness.
Untemplated(pp) ==
    {i \in 1..Len(pp) :
        \/ "tissue_template" \notin DOMAIN pp[i][2]
        \/ pp[i][2].tissue_template = EmptyStr}

Flat(pp) ==
    {i \in 1..Len(pp) :
        \/ "geometry" \notin DOMAIN pp[i][2]
        \/ "thickness_cm" \notin DOMAIN pp[i][2].geometry
        \/ pp[i][2].geometry.thickness_cm = 0}

\* msgs is empty if no part offends; otherwise it is one message under
\* `text` that lists the names of the first five offending parts in
\* document order and counts the others (0: no suffix).
OneMessageOn(msgs, text, pp, offending) ==
    IF offending = {} THEN msgs = <<>>
    ELSE /\ Len(msgs) = 1
         /\ msgs[1][1] = text
         /\ Len(msgs[1][2]) = (IF Cardinality(offending) > 5 THEN 5
                               ELSE Cardinality(offending))
         /\ \A j \in 1..Len(msgs[1][2]) :
              \E i \in offending :
                  /\ Cardinality({q \in offending : q < i}) = j - 1
                  /\ msgs[1][2][j] = pp[i][1]
         /\ msgs[1][3] = (IF Cardinality(offending) > 5 THEN Cardinality(offending) - 5
                          ELSE 0)

\* C24: the entry of a body plan has exactly one error if at least one part
\* has no tissue template reference and none otherwise; the error lists the
\* first five offending part names at most and, beyond five offenders,
\* counts the others; likewise it has exactly one warning if at least one
\* part has zero or missing geometry thickness; the entry carries the
\* distinct non-empty tissue template ids its parts reference, each once.
C24_PlanRules ==
    Audited("body_plans") =>
        /\ Len(EntriesSeq("body_plans")) = Len(PlanRecords)
        /\ \A k \in 1..Len(PlanRecords) :
             LET pp == InputPlanParts(PlanRecords[k][1])
                 entry == EntriesSeq("body_plans")[k]
                 used == entry.fields.tissue_templates_used
             IN  /\ OneMessageOn(entry.errors, "Parts missing tissue_template", pp,
                                 Untemplated(pp))
                 /\ OneMessageOn(entry.warnings, "Parts with zero/missing geometry", pp,
                                 Flat(pp))
                 /\ Range(used) = InputPlanTemplates(PlanRecords[k][1])
                 /\ Len(used) = Cardinality(InputPlanTemplates(PlanRecords[k][1]))

\* The entry of a plan of six parts, all without tissue template and two of
\* them with a geometry thickness: the error lists the parts 1 to 5 and
\* counts one more, the warning lists four parts.
C24_Witness ==
    /\ Audited("body_plans")
    /\ Len(PlanRecords) = 1
    /\ Cardinality(Untemplated(InputPlanParts(PlanRecords[1][1]))) = 6
    /\ Cardinality(Flat(InputPlanParts(PlanRecords[1][1]))) = 4
    /\ EntriesSeq("body_plans")[1].errors
         = << <<"Parts missing tissue_template", <<1, 2, 3, 4, 5>>, 1>> >>
    /\ Len(EntriesSeq("body_plans")[1].warnings) = 1
    /\ EntriesSeq("body_plans")[1].fields.tissue_templates_used = <<>>

\* The three multiplier fields of an axis bias block and their warnings.
AxisFields == {"geometry_mult", "energy_mult", "rigidity_mult"}
NotSetText(f) == "axis_bias." \o f \o " not set (default 1.0)"
NotDefinedText == "axis_bias not defined (using defaults)"
NoChannelText == "No channels defined for combat technique"

\* A combat technique none of whose channels is true.
NoActiveChannel(tech) ==
    /\ "attack_mode" \in DOMAIN tech
    /\ tech.attack_mode # "none"
    /\ \/ "channels" \notin DOMAIN tech
       \/ \A c \in DOMAIN tech.channels : ~tech.channels[c]

\* The warnings of a technique entry are as the rules say, where `absent`
\* tells whether the axis bias block counts as absent.
TechniqueWarnings(tech, entry, absent) ==
    /\ MessageCount(entry.warnings, NotDefinedText) = (IF absent THEN 1 ELSE 0)
    /\ \A f \in AxisFields :
         MessageCount(entry.warnings, NotSetText(f))
           = (IF ~absent /\ f \notin DOMAIN tech.axis_bias THEN 1 ELSE 0)
    /\ MessageCount(entry.warnings, NoChannelText)
         = (IF NoActiveChannel(tech) THEN 1 ELSE 0)
    /\ Len(entry.warnings)
         = (IF absent THEN 1
            ELSE Cardinality({f \in AxisFields : f \notin DOMAIN tech.axis_bias}))
           + (IF NoActiveChannel(tech) THEN 1 ELSE 0)
    /\ entry.errors = <<>>

\* C25 (as claimed): a technique entry has one warning if its axis bias
\* block is entirely absent, or, when the block is present, one for each of
\* the three multiplier fields it lacks; one more if its attack mode is not
\* "none" and none of its channels is true; and it never has errors.
C25_AbsentOrPerField ==
    Audited("techniques") =>
        /\ Len(EntriesSeq("techniques")) = Len(TechniqueRecords)
        /\ \A k \in 1..Len(TechniqueRecords) :
             TechniqueWarnings(TechniqueRecords[k], EntriesSeq("techniques")[k],
                               "axis_bias" \notin DOMAIN TechniqueRecords[k])

\* C25 (amended): a technique entry has one warning if its axis bias block
\* is absent or present without any field, or, when the block has a field,
\* one for each of the three multiplier fields it lacks; one more if its
\* attack mode is not "none" and none of its channels is true; and it never
\* has errors.
C25_TechniqueRules ==
    Audited("techniques") =>
        /\ Len(EntriesSeq("techniques")) = Len(TechniqueRecords)
        /\ \A k \in 1..Len(TechniqueRecords) :
             LET tech == TechniqueRecords[k]
             IN  TechniqueWarnings(tech, EntriesSeq("techniques")[k],
                                   \/ "axis_bias" \notin DOMAIN tech
                                   \/ DOMAIN tech.axis_bias = {})

\* The entry of a thrust technique whose axis bias block is present and
\* empty and whose only true channel is footwork: one warning, that the
\* axis bias is not defined.
C25_Witness ==
    /\ Audited("techniques")
    /\ \E k \in 1..Len(TechniqueRecords) :
         LET tech == TechniqueRecords[k] IN
         /\ "axis_bias" \in DOMAIN tech
         /\ DOMAIN tech.axis_bias = {}
         /\ "attack_mode" \in DOMAIN tech /\ tech.attack_mode = "thrust"
         /\ "channels" \in DOMAIN tech
         /\ tech.channels = [weapon |-> FALSE, off_hand |-> FALSE, footwork |-> TRUE]
         /\ EntriesSeq("techniques")[k].warnings = << <<NotDefinedText>> >>

-----------------------------------------------------------------------------
(* Properties of the weapon flattener *)

\* Every node below a mapping: <<path of keys, value, whether a node above
\* it carries a name>>.
RECURSIVE NodesBelow(_, _, _)
NodesBelow(path, items, below_named) ==
    UNION { {<<Append(path, items[i][1]), items[i][2], below_named>>}
            \cup (IF IsDict(items[i][2])
                  THEN NodesBelow(Append(path, items[i][1]),
                                  Get(items[i][2], "items", NoEntries),
                                  below_named \/ "name" \in DOMAIN items[i][2])
                  ELSE {}) :
            i \in 1..Len(items) }

\* The keys of a path with a dot between them, for the paths of the trees.
Dotted(path) ==
    CASE Len(path) = 1 -> path[1]
      [] Len(path) = 2 -> path[1] \o "." \o path[2]
      [] Len(path) = 3 -> path[1] \o "." \o path[2] \o "." \o path[3]
      [] Len(path) = 4 -> path[1] \o "." \o path[2] \o "." \o path[3] \o "." \o path[4]
      [] OTHER -> path[1] \o "." \o path[2] \o "." \o path[3] \o "." \o path[4]
                  \o "." \o path[5]

InputWeaponNodes == NodesBelow(<<>>, Get(Get(data, "weapons", <<>>), "items", NoEntries), FALSE)

\* The nodes that carry a name and have no node with a name above them.
TopmostNamed ==
    {n \in InputWeaponNodes : IsDict(n[2]) /\ "name" \in DOMAIN n[2] /\ ~n[3]}

\* C26: the result of the weapon flattener holds exactly one pair for each
\* mapping below the root that carries a name and has no mapping with a
\* name above it, made of the keys of its path joined by dots and of the
\* node; so mappings without name are descended into, values that are no
\* mappings yield nothing, and nothing below a named node does; the weapon
\* auditor makes its entries of exactly these pairs.
C26_TopmostNamed ==
    /\ Range(WeaponRecords) = {<<Dotted(n[1]), n[2]>> : n \in TopmostNamed}
    /\ Len(WeaponRecords) = Cardinality(TopmostNamed)
    /\ Audited("weapons") =>
         /\ report.weapon_ids = {Dotted(n[1]) : n \in TopmostNamed}
         /\ Len(EntriesSeq("weapons")) = Cardinality(TopmostNamed)

\* The weapons are audited on a tree whose named nodes "a.a" and "a.b" lie
\* below mappings without name, with a named node and a scalar below
\* "a.a": the flattener has returned the two and nothing below them.
C26_Witness ==
    /\ Audited("weapons")
    /\ report.weapon_ids = {"a.a", "a.b"}
    /\ Len(report.entries) = 2
    /\ \E n \in InputWeaponNodes :
         Len(n[1]) = 3 /\ IsDict(n[2]) /\ "name" \in DOMAIN n[2] /\ n[3]
    /\ \E n \in InputWeaponNodes : Len(n[1]) = 3 /\ ~IsDict(n[2])

-----------------------------------------------------------------------------
(* Properties of the report *)

DatasetKinds == Range(AlphabeticalDatasets)

\* The summary counters of a report are those of its entries: a row for
\* each dataset with entries and for no other, with the number of its
\* entries, of those with a warning and of those with an error.
SummaryMatchesEntries(rep) ==
    /\ DOMAIN rep.summary
         = {ds \in DatasetKinds : \E i \in 1..Len(rep.entries) : rep.entries[i].dataset = ds}
    /\ \A ds \in DOMAIN rep.summary :
         LET of_kind == {i \in 1..Len(rep.entries) : rep.entries[i].dataset = ds}
         IN  rep.summary[ds]
               = [total |-> Cardinality(of_kind),
                  warnings |-> Cardinality({i \in of_kind : rep.entries[i].warnings # <<>>}),
                  errors |-> Cardinality({i \in of_kind : rep.entries[i].errors # <<>>})]

\* The errors counted in the row of one dataset (0: no row).
RowErrors(rep, ds) == IF ds \in DOMAIN rep.summary THEN rep.summary[ds].errors ELSE 0

RowErrorsTotal(rep) ==
    RowErrors(rep, "armour_materials") + RowErrors(rep, "armour_pieces")
    + RowErrors(rep, "body_plans") + RowErrors(rep, "techniques")
    + RowErrors(rep, "tissue_templates") + RowErrors(rep, "weapons")

\* C27: after any sequence of add_entry calls (between the auditors, and
\* inside an auditor after each record) the summary has, for every dataset
\* with entries, the number of its entries, of its entries with a warning
\* and of its entries with an error, and no row for a dataset without
\* entries; the error count of the report is the errors of the rows plus
\* the cross-reference errors, which no row counts; the rendered summary
\* table has the rows of the summary.
C27_SummaryCounters ==
    /\ SummaryMatchesEntries(report)
    /\ error_count(report) = RowErrorsTotal(report) + Len(report.cross_ref_errors)
    /\ markdown.rendered =>
         /\ Range(markdown.summary_rows) = DOMAIN report.summary
         /\ markdown.total_errors = RowErrorsTotal(report) + Len(report.cross_ref_errors)
    /\ pc = "audit_weapons" =>
         \A k \in 0..Len(WeaponRecords) :
             SummaryMatchesEntries(audit_weapons(Prefix(WeaponRecords, k), report))
    /\ pc = "audit_techniques" =>
         \A k \in 0..Len(TechniqueRecords) :
             SummaryMatchesEntries(audit_techniques(Prefix(TechniqueRecords, k), report))
    /\ pc = "audit_armour_materials" =>
         \A k \in 0..Len(MaterialRecords) :
             SummaryMatchesEntries(audit_armour_materials(Prefix(MaterialRecords, k), report))
    /\ pc = "audit_armour_pieces" =>
         \A k \in 0..Len(PieceRecords) :
             SummaryMatchesEntries(audit_armour_pieces(Prefix(PieceRecords, k), report))
    /\ pc = "audit_tissue_templates" =>
         \A k \in 0..Len(TemplateRecords) :
             SummaryMatchesEntries(audit_tissue_templates(Prefix(TemplateRecords, k), report))
    /\ pc = "audit_body_plans" =>
         \A k \in 0..Len(PlanRecords) :
             SummaryMatchesEntries(audit_body_plans(Prefix(PlanRecords, k), report, <<1, 2, 3>>))

\* A rendered report without weapons whose only armour piece has two
\* errors and counts once, whose three body plans count one error and one
\* warning, and whose cross-reference errors are in no row.
C27_Witness ==
    /\ markdown.rendered
    /\ "weapons" \notin DOMAIN report.summary
    /\ "armour_pieces" \in DOMAIN report.summary
    /\ report.summary["armour_pieces"] = [total |-> 1, warnings |-> 0, errors |-> 1]
    /\ \E i \in EntriesOf("armour_pieces") : Len(report.entries[i].errors) = 2
    /\ "body_plans" \in DOMAIN report.summary
    /\ report.summary["body_plans"] = [total |-> 3, warnings |-> 1, errors |-> 1]
    /\ Len(report.cross_ref_errors) = 2
    /\ markdown.total_errors = RowErrorsTotal(report) + 2

\* C28: the cross-reference pass only appends to the list of
\* cross-reference errors of the report: the entries (their ids, fields,
\* warnings and errors, and their order), the seven id sets and the summary
\* counters are after the pass what they were before it, and so is the
\* input; rendering the report changes nothing in the report.
C28_CrossRefFrame ==
    [][/\ pc = "validate_cross_references" =>
            /\ report'.entries = report.entries
            /\ report'.summary = report.summary
            /\ report'.weapon_ids = report.weapon_ids
            /\ report'.technique_ids = report.technique_ids
            /\ report'.armour_material_ids = report.armour_material_ids
            /\ report'.armour_piece_ids = report.armour_piece_ids
            /\ report'.tissue_template_ids = report.tissue_template_ids
            /\ report'.tissue_material_ids = report.tissue_material_ids
            /\ report'.body_plan_ids = report.body_plan_ids
            /\ Len(report'.cross_ref_errors) >= Len(report.cross_ref_errors)
            /\ SubSeq(report'.cross_ref_errors, 1, Len(report.cross_ref_errors))
                 = report.cross_ref_errors
            /\ data' = data
       /\ pc = "to_markdown" => report' = report /\ data' = data]_vars

\* The report has been rendered after a pass that appended three
\* cross-reference errors to a report whose entries carry errors and
\* warnings of their own.
C28_Witness ==
    /\ pc = "write_report"
    /\ Len(report.cross_ref_errors) = 3
    /\ SomeEntryHasErrors
    /\ SomeEntryHasWarnings
    /\ report.tissue_material_ids # {}

-----------------------------------------------------------------------------
(* Properties of what the cross-reference pass looks up *)

\* The armour piece entries without material id.
Unspecified ==
    {i \in EntriesOf("armour_pieces") : report.entries[i].fields.material_id = EmptyStr}

\* C29: the entry of an armour piece whose material is missing or empty has
\* the error "No material specified" exactly once, and the cross-reference
\* pass makes no error of it: no cross-reference error names an empty
\* material, and the armour piece errors of the pass are as many as the
\* pieces with a material id that is not empty and not defined; so the
\* error count of the report counts a piece without material once, with the
\* entries that carry errors, and a report of armour materials and of
\* pieces whose only fault is the missing material counts one error a piece.
C29_UnspecifiedOnce ==
    /\ Audited("armour_pieces") =>
         \A k \in 1..Len(PieceRecords) :
             LET piece == PieceRecords[k][2]
                 entry == EntriesSeq("armour_pieces")[k]
             IN  ("material" \notin DOMAIN piece \/ piece.material = EmptyStr) =>
                     /\ entry.fields.material_id = EmptyStr
                     /\ MessageCount(entry.errors, "No material specified") = 1
    /\ AfterRunAudit =>
         /\ \A i \in 1..Len(report.cross_ref_errors) :
              report.cross_ref_errors[i][1] = PieceErrorText
                  => report.cross_ref_errors[i][3] # EmptyStr
         /\ MessageCount(report.cross_ref_errors, PieceErrorText)
              = Cardinality({i \in EntriesOf("armour_pieces") \ Unspecified :
                               report.entries[i].fields.material_id
                                 \notin report.armour_material_ids})
         /\ error_count(report)
              = Cardinality({i \in 1..Len(report.entries) : report.entries[i].errors # <<>>})
                + Cardinality({i \in EntriesOf("armour_pieces") \ Unspecified :
                                 report.entries[i].fields.material_id
                                   \notin report.armour_material_ids})
                + MessageCount(report.cross_ref_errors, TemplateErrorText)
         /\ (/\ Len(report.entries) = Cardinality(Unspecified) + Len(MaterialRecords)
             /\ \A i \in Unspecified : Len(report.entries[i].errors) = 1)
                => error_count(report) = Cardinality(Unspecified)

\* The run on one piece whose material is the empty string and whose
\* coverage has part tags has ended: the report counts one error, the one
\* of the entry.
C29_Witness ==
    /\ pc = "exited"
    /\ exit_code = 1
    /\ Len(PieceRecords) = 1
    /\ "material" \in DOMAIN PieceRecords[1][2]
    /\ PieceRecords[1][2].material = EmptyStr
    /\ EntriesSeq("armour_pieces")[1].errors = << <<"No material specified">> >>
    /\ report.cross_ref_errors = <<>>
    /\ markdown.total_errors = 1

\* The subsets of the material ids a tissue layer can name.
LayerMaterialSets == SUBSET {1, 2, UnknownMaterial}

\* The layer materials the tissue templates name that no armour material
\* record defines.
UndefinedLayerMaterials == report.tissue_material_ids \ report.armour_material_ids

\* C30: every cross-reference error is the one of an armour piece entry
\* about its material id or the one of a body plan entry about a tissue
\* template id it uses; the pass yields the same errors whatever the tissue
\* material id set holds, so a layer on an undefined material makes no
\* cross-reference error, and a report without entry errors and without
\* unresolved piece material or plan template is not FAILED.
C30_LayersNotLookedUp ==
    /\ AfterRunAudit =>
         \A i \in 1..Len(report.cross_ref_errors) :
             LET e == report.cross_ref_errors[i]
             IN  \/ /\ e[1] = PieceErrorText
                    /\ \E j \in EntriesOf("armour_pieces") :
                         /\ report.entries[j].id = e[2]
                         /\ report.entries[j].fields.material_id = e[3]
                         /\ e[3] \notin report.armour_material_ids
                 \/ /\ e[1] = TemplateErrorText
                    /\ \E j \in EntriesOf("body_plans") :
                         /\ report.entries[j].id = e[2]
                         /\ e[3] \in Range(report.entries[j].fields.tissue_templates_used)
                         /\ e[3] \notin report.tissue_template_ids
    /\ pc = "validate_cross_references" =>
         \A S \in LayerMaterialSets :
             validate_cross_references([report EXCEPT !.tissue_material_ids = S]).cross_ref_errors
               = validate_cross_references(report).cross_ref_errors
    /\ (/\ markdown.rendered
        /\ ~SomeEntryHasErrors
        /\ \A j \in EntriesOf("armour_pieces") :
             report.entries[j].fields.material_id \in report.armour_material_ids
        /\ \A j \in EntriesOf("body_plans") :
             Range(report.entries[j].fields.tissue_templates_used)
               \subseteq report.tissue_template_ids)
           => /\ report.cross_ref_errors = <<>>
              /\ markdown.status # "FAILED"

\* A rendered report that is not FAILED although the layers of its tissue
\* templates name two materials and no armour material is defined; a body
\* plan uses one of the templates.
C30_Witness ==
    /\ markdown.rendered
    /\ markdown.status # "FAILED"
    /\ report.armour_material_ids = {}
    /\ UndefinedLayerMaterials = {1, 2}
    /\ EntriesOf("body_plans") # {}
    /\ report.cross_ref_errors = <<>>

=============================================================================
